---- MODULE Spec2Model ----
(***************************************************************************)
(* rmx: the deletion scheduler (Broker), the worker pool and the platform  *)
(* delete primitives, as a state machine.                                  *)
(*                                                                         *)
(* Directories are numbered 1..n with the scanned root = 1; the files of a *)
(* directory are numbered 1..N and a file list is the interval <<lo, hi>>  *)
(* of those numbers (the scanner's list order).  OS results are the raw    *)
(* Win32 error codes the code classifies (0 = success).                    *)
(*                                                                         *)
(* Spec is the worker pool on a broker built by Broker::new, MainSpec the  *)
(* pool with the thread that joins it and drains the failures,             *)
(* DirsOnlySpec the pool on a broker built by new_dirs_only, ScanSpec the  *)
(* scanner (discover_tree), CallSpec single calls of the functions below.  *)
(***************************************************************************)
EXTENDS Integers, Sequences, FiniteSets, TLC

\* ------------------------------------------------------------ constants
BATCH_THRESHOLD == 1024
BATCH_SIZE == 256
MAX_RETRIES == 4
RETRY_DELAYS_MS == <<0, 1, 5, 10>>
DIR_NOT_EMPTY_CLEANUP_ROUNDS == 5
DIR_NOT_EMPTY_CLEANUP_DELAYS_MS == <<1, 10, 50, 100, 200>>

ERROR_SUCCESS == 0
ERROR_FILE_NOT_FOUND == 2
ERROR_PATH_NOT_FOUND == 3
ERROR_ACCESS_DENIED == 5
ERROR_SHARING_VIOLATION == 32
ERROR_LOCK_VIOLATION == 33
ERROR_INVALID_NAME == 123
ERROR_DIR_NOT_EMPTY == 145
ERROR_BAD_PATHNAME == 161

\* ------------------------------------------------------------ bounds
\* Size of the scanned tree: its directories (the root included), a
\* directory with BATCH_THRESHOLD files or more counting twice.
MaxDirs == 3
\* Worker threads.
MaxWorkers == 2
\* Files of a small directory: 0..MaxSmallFiles.
MaxSmallFiles == 1
\* Files of a directory around the batching threshold:
\* BATCH_THRESHOLD .. BATCH_THRESHOLD + MaxOver.
MaxOver == 1
\* Junction/symlink directories in the tree.
MaxLinks == 1
\* Directories of the tree that hold files.
MaxBusy == 1
\* Paths (files or directories) on which the OS answers a delete call with
\* an error of its own during one run.
MaxFaulty == 1
\* The code of a hard failure: one that no classifier of the code knows
\* (1117 is ERROR_IO_DEVICE).
HardErrorCode == 1117
\* Cores of the machine (std::thread::available_parallelism).
CpuCount == 4
\* Directories on disk under the scanned root, the root included.
MaxScanDirs == 4
\* Reparse-point directories on disk, and file symlinks on disk.
MaxScanLinks == 1
\* Regular files of a directory on disk: 0..MaxScanFiles.
MaxScanFiles == 1
\* Directories on disk that hold regular files.
MaxScanBusy == 2
\* Directories whose enumeration fails during one scan.
MaxScanBad == 1
\* Characters of a path given to path_to_wide, the prefix not counted.
MaxPathLen == 5

\* ------------------------------------------------------------ helpers
\* Notation: (CHOOSE res \in { e(x) : x \in { v } } : TRUE) is e(v) with v
\* evaluated once and held in x, as a Rust `let x = v;` before e.
Min(a, b) == IF a < b THEN a ELSE b
Max(a, b) == IF a < b THEN b ELSE a

\* usize::div_ceil
div_ceil(a, b) == (a + b - 1) \div b

\* A file list <<lo, hi>>: the files lo..hi of one directory, in list order.
IvLen(iv) == IF iv[2] < iv[1] THEN 0 ELSE iv[2] - iv[1] + 1
IvSet(iv) == iv[1] .. iv[2]

\* Variant: each chunk starts at the last file of the chunk before it.
RECURSIVE chunks_Overlap(_, _)
chunks_Overlap(iv, size) ==
  IF IvLen(iv) = 0 THEN << >>
  ELSE IF iv[1] + size - 1 >= iv[2] THEN << iv >>
  ELSE << <<iv[1], iv[1] + size - 1>> >>
         \o chunks_Overlap(<<iv[1] + size - 1, iv[2]>>, size)

\* slice::chunks(size): consecutive chunks of `size` files, the last shorter.
RECURSIVE chunks(_, _)
chunks(iv, size) ==
  IF IvLen(iv) = 0 THEN << >>
  ELSE << <<iv[1], Min(iv[2], iv[1] + size - 1)>> >>
         \o chunks(<<iv[1] + size, iv[2]>>, size)

\* The sequences that list every element of the finite set S exactly once.
RECURSIVE Perms(_)
Perms(S) ==
  IF S = {} THEN { << >> }
  ELSE UNION { { <<x>> \o p : p \in Perms(S \ {x}) } : x \in S }

\* The elements of a set of integers in increasing order.
RECURSIVE Sorted(_)
Sorted(S) ==
  IF S = {} THEN << >>
  ELSE LET m == CHOOSE x \in S : \A y \in S : x <= y
       IN <<m>> \o Sorted(S \ {m})

SeqToSet(s) == { s[i] : i \in 1..Len(s) }

\* The sum of f over the finite set S.
RECURSIVE SumOver(_, _)
SumOver(f, S) ==
  IF S = {} THEN 0
  ELSE LET x == CHOOSE y \in S : TRUE IN f[x] + SumOver(f, S \ {x})

\* ------------------------------------------------------------ error kinds
\* Variant: dir-not-empty is not retried.
is_retryable_error_NoDirNotEmpty(code) ==
  code \in {ERROR_SHARING_VIOLATION, ERROR_LOCK_VIOLATION,
            ERROR_ACCESS_DENIED}

\* Variant: access-denied counts as dir-not-empty.
is_dir_not_empty_error_OrDenied(code) ==
  code \in {ERROR_DIR_NOT_EMPTY, ERROR_ACCESS_DENIED}

is_retryable_error(code) ==
  code \in {ERROR_SHARING_VIOLATION, ERROR_LOCK_VIOLATION,
            ERROR_ACCESS_DENIED, ERROR_DIR_NOT_EMPTY}

is_file_in_use_error(code) ==
  code \in {ERROR_ACCESS_DENIED, ERROR_SHARING_VIOLATION, ERROR_LOCK_VIOLATION}

is_dir_not_empty_error(code) == code = ERROR_DIR_NOT_EMPTY

is_not_found_error(code) ==
  code \in {ERROR_FILE_NOT_FOUND, ERROR_PATH_NOT_FOUND,
            ERROR_INVALID_NAME, ERROR_BAD_PATHNAME}

\* ------------------------------------------------------------ scanned tree
\* What discover_tree hands to the broker: n directories 1..n, root 1,
\* parent[d] < d, `link` the junction/symlink directories (leaves, never
\* recursed into, no files listed), files[d] the number of files listed for d.
Dirs(t) == 1 .. t.n
Children(t, d) == { c \in Dirs(t) : c > 1 /\ t.parent[c] = d }
\* DirectoryTree.leaves: the directories that are no key of `children`.
Leaves(t) == { d \in Dirs(t) : Children(t, d) = {} }

FileCounts ==
  (0 .. MaxSmallFiles) \cup (BATCH_THRESHOLD .. BATCH_THRESHOLD + MaxOver)

Trees ==
  { t \in [ n : 1 .. MaxDirs,
            parent : UNION { [2 .. m -> 1 .. MaxDirs] : m \in 1 .. MaxDirs },
            link : SUBSET (2 .. MaxDirs),
            files : UNION { [1 .. m -> FileCounts] : m \in 1 .. MaxDirs } ] :
      /\ DOMAIN t.parent = 2 .. t.n
      /\ DOMAIN t.files = 1 .. t.n
      /\ \A c \in 2 .. t.n : t.parent[c] < c
      /\ t.link \subseteq Leaves(t) \ {1}
      /\ Cardinality(t.link) <= MaxLinks
      /\ \A j \in t.link : t.files[j] = 0
      /\ Cardinality({ d \in 1 .. t.n : t.files[d] > 0 }) <= MaxBusy
      /\ t.n + Cardinality({ d \in 1 .. t.n :
                               t.files[d] >= BATCH_THRESHOLD }) <= MaxDirs }

\* DirectoryTree.dir_files: a key only for a directory that holds files.
TreeDirFiles(t) ==
  [ d \in { x \in Dirs(t) : t.files[x] > 0 } |-> <<1, t.files[d]>> ]

\* ------------------------------------------------------------ work items
ProcessDir(d) == [type |-> "ProcessDir", dir |-> d, files |-> <<1, 0>>]
DeleteFiles(iv, d) == [type |-> "DeleteFiles", dir |-> d, files |-> iv]
Shutdown == [type |-> "Shutdown", dir |-> 0, files |-> <<1, 0>>]

\* ------------------------------------------------------------ Broker
\* Variant: a directory with exactly the threshold is split as well.
NeedsBatching_AtThreshold(file_count) == file_count >= BATCH_THRESHOLD

\* Variant: the batch count rounded down.
BatchCount_Floor(n) == n \div BATCH_SIZE

\* schedule_directory's test: a directory with more files than the threshold
\* is split into batches.
NeedsBatching(file_count) == file_count > BATCH_THRESHOLD

\* Variant: the counter is set one below the number of batches.
BatchCount_OneShort(n) == div_ceil(n, BATCH_SIZE) - 1

\* schedule_directory's batch_count.
BatchCount(n) == div_ceil(n, BATCH_SIZE)

\* schedule_directory's file_count: dir_files.get(dir).map(len).unwrap_or(0)
FileCountOf(df, d) == IF d \in DOMAIN df THEN IvLen(df[d]) ELSE 0

\* The DeleteFiles items schedule_directory sends for a large directory.
BatchItems(iv, d) ==
  LET cs == chunks(iv, BATCH_SIZE)
  IN [ i \in 1 .. Len(cs) |-> DeleteFiles(cs[i], d) ]

\* Variant: remove leaves the entry in the map.
MapDel_Keep(m, k) == m

\* Map helpers (DashMap insert / remove).
MapPut(m, k, v) == [ x \in DOMAIN m \cup {k} |-> IF x = k THEN v ELSE m[x] ]
MapDel(m, k) == [ x \in DOMAIN m \ {k} |-> m[x] ]

\* Variant: the counter is not in the map yet when the sends start.
InsertPending_Late(pb, d, n) == pb

\* schedule_directory: pending_batches.insert(dir, batch_count), the
\* statement before the loop of sends.
InsertPending(pb, d, n) == MapPut(pb, d, BatchCount(n))

\* schedule_directory run to its end on broker maps b = [df, pb, q]
\* (Broker::new calls it once per leaf before any worker exists).
ScheduleAll(b, d) ==
  IF NeedsBatching(FileCountOf(b.df, d))
  THEN [ df |-> MapDel(b.df, d),
         pb |-> InsertPending(b.pb, d, IvLen(b.df[d])),
         q |-> b.q \o BatchItems(b.df[d], d) ]
  ELSE [ b EXCEPT !.q = Append(b.q, ProcessDir(d)) ]

RECURSIVE ScheduleLeaves(_, _)
ScheduleLeaves(b, leaves) ==
  IF leaves = << >> THEN b
  ELSE ScheduleLeaves(ScheduleAll(b, Head(leaves)), Tail(leaves))

\* ------------------------------------------------------------ file system
\* fs = [gone, present, behind]: the directories of the tree that no longer
\* exist, per directory the intervals of files still present, and the
\* junction directories whose target still holds its content.
FsInit(t) ==
  [ gone |-> {},
    present |-> [ d \in Dirs(t) |->
                   IF t.files[d] > 0 THEN { <<1, t.files[d]>> } ELSE {} ],
    behind |-> t.link ]

\* The intervals of P with the files lo..hi taken out.
CutRange(P, lo, hi) ==
  { iv \in { <<p[1], Min(p[2], lo - 1)>> : p \in P }
           \cup { <<Max(p[1], hi + 1), p[2]>> : p \in P } : IvLen(iv) > 0 }

FilePresent(f, d, i) == \E iv \in f.present[d] : i \in IvSet(iv)

\* The OS answers success or file/path-not-found: the name is not there
\* after the call.
Vanished(code) ==
  code \in {ERROR_SUCCESS, ERROR_FILE_NOT_FOUND, ERROR_PATH_NOT_FOUND}

\* ------------------------------------------------------------ delete_file
\* The files of a directory whose delete_file may answer anything: the first
\* and the last of its list.  Every other file is deleted at the first call.
TroubleFiles(t, d) == {1, t.files[d]} \cap (1 .. t.files[d])

\* What delete_file returns for one path at the successive calls the worker
\* makes on it (first pass, after the process kill, after the force-close).
\* A later call happens only after an in-use answer with kill_processes on;
\* the calls that never happen are written 0.
FileCodes ==
  {ERROR_SUCCESS, ERROR_FILE_NOT_FOUND, ERROR_ACCESS_DENIED,
   ERROR_SHARING_VIOLATION, ERROR_LOCK_VIOLATION, ERROR_INVALID_NAME,
   HardErrorCode}

\* The scripts over the result codes `codes`.
ScriptsOver(codes, kill) ==
  LET busy == { c \in codes : is_file_in_use_error(c) }
      free == codes \ busy
  IN IF kill
     THEN { <<a, 0, 0>> : a \in free }
          \cup { <<u, b, 0>> : u \in busy, b \in free }
          \cup { <<u, v, c>> : u \in busy, v \in busy, c \in codes }
     ELSE { <<a, 0, 0>> : a \in codes }

\* The scripts of a run of the worker pool.  The three in-use codes differ
\* only in the text of the FailedItem: where the escalation follows, the
\* in-use answers are sharing violations.
FileScripts(kill) ==
  IF kill
  THEN ScriptsOver(FileCodes \ {ERROR_ACCESS_DENIED, ERROR_LOCK_VIOLATION},
                   TRUE)
  ELSE ScriptsOver(FileCodes, FALSE)

FailedFile(d, i, code) ==
  [path |-> <<d, i>>, error |-> code, is_dir |-> FALSE]
FailedDir(d, code) ==
  [path |-> <<d, 0>>, error |-> code, is_dir |-> TRUE]

\* Variant: a list as long as the threshold is still handled sequentially.
UsesParallel_Above(len, cpus) ==
  IF cpus \in 1 .. 4 THEN len > 24
  ELSE IF cpus \in 5 .. 8 THEN len > 16
  ELSE IF cpus \in 9 .. 16 THEN len > 12
  ELSE len > 8

\* cpu-dependent strategy switch of delete_files_from_list.
parallel_threshold(cpus) ==
  IF cpus \in 1 .. 4 THEN 24
  ELSE IF cpus \in 5 .. 8 THEN 16
  ELSE IF cpus \in 9 .. 16 THEN 12
  ELSE 8

UsesParallel(len, cpus) == ~(len < parallel_threshold(cpus))

\* Variant: in-use failures are escalated whatever kill_processes says.
FirstLocked_Ungated(ts, kill, scr) ==
  SelectSeq(ts, LAMBDA i : /\ scr[i][1] # ERROR_SUCCESS
                           /\ ~is_not_found_error(scr[i][1])
                           /\ is_file_in_use_error(scr[i][1]))

\* Variant: the first pass drops an in-use failure it does not escalate.
FirstRecorded_SkipInUse(ts, kill, scr) ==
  SelectSeq(ts, LAMBDA i : /\ scr[i][1] # ERROR_SUCCESS
                           /\ ~is_not_found_error(scr[i][1])
                           /\ ~is_file_in_use_error(scr[i][1]))

\* First pass of delete_files_sequential / delete_files_parallel over the
\* paths ts (in list order) with answers scr: the paths pushed to
\* locked_files, and the paths recorded at once.
FirstLocked(ts, kill, scr) ==
  SelectSeq(ts, LAMBDA i : /\ scr[i][1] # ERROR_SUCCESS
                           /\ ~is_not_found_error(scr[i][1])
                           /\ kill /\ is_file_in_use_error(scr[i][1]))
FirstRecorded(ts, kill, scr) ==
  SelectSeq(ts, LAMBDA i : /\ scr[i][1] # ERROR_SUCCESS
                           /\ ~is_not_found_error(scr[i][1])
                           /\ ~(kill /\ is_file_in_use_error(scr[i][1])))

\* Variant: retain records every failed retry, the in-use ones it keeps too.
SecondRecorded_AnyError(paths, scr) ==
  SelectSeq(paths, LAMBDA i : /\ scr[i][2] # ERROR_SUCCESS
                              /\ ~is_not_found_error(scr[i][2]))

\* Variant: retain keeps every path whose retry failed, in use or not.
SecondLocked_AnyError(paths, scr) ==
  SelectSeq(paths, LAMBDA i : /\ scr[i][2] # ERROR_SUCCESS
                              /\ ~is_not_found_error(scr[i][2]))

\* handle_locked_files: paths.retain after kill_locking_processes_batch.
SecondLocked(paths, scr) ==
  SelectSeq(paths, LAMBDA i : /\ scr[i][2] # ERROR_SUCCESS
                              /\ ~is_not_found_error(scr[i][2])
                              /\ is_file_in_use_error(scr[i][2]))
SecondRecorded(paths, scr) ==
  SelectSeq(paths, LAMBDA i : /\ scr[i][2] # ERROR_SUCCESS
                              /\ ~is_not_found_error(scr[i][2])
                              /\ ~is_file_in_use_error(scr[i][2]))
\* Variant: the last loop records a not-found answer like any other error.
ThirdRecorded_All(paths, scr) ==
  SelectSeq(paths, LAMBDA i : scr[i][3] # ERROR_SUCCESS)

\* handle_locked_files: the last loop, after force_close_file_handles.
ThirdRecorded(paths, scr) ==
  SelectSeq(paths, LAMBDA i : /\ scr[i][3] # ERROR_SUCCESS
                              /\ ~is_not_found_error(scr[i][3]))

\* The answer of a delete call after which nothing is recorded: Ok, or an
\* error is_not_found_error holds of.
Quiet(code) == code = ERROR_SUCCESS \/ is_not_found_error(code)

\* One call made while a list or a directory is handled, in program order:
\* op is the function called, on the paths it is given and code what it
\* answered (ERROR_SUCCESS for the calls whose result is thrown away).
Event(op, on, code) == [op |-> op, on |-> on, code |-> code]

RECURSIVE Concat(_)
Concat(ss) == IF ss = << >> THEN << >> ELSE Head(ss) \o Concat(Tail(ss))

\* A delete_file call on path i answering code, and the record_file_error
\* call that follows it when recorded holds.
DeleteSteps(i, code, recorded) ==
  << Event("delete_file", {i}, code) >>
    \o (IF recorded THEN << Event("record_file_error", {i}, code) >> ELSE << >>)

\* handle_locked_files(locked_files): [fails, esc, calls, steps] where fails
\* are the FailedItems recorded in order, esc the escalation calls made in
\* order, calls[i] the number of delete_file calls made on path i so far and
\* steps the calls made in program order.
handle_locked_files(locked, d, scr) ==
  IF locked = << >>
  THEN [fails |-> << >>, esc |-> << >>, calls |-> [i \in {} |-> 0],
        steps |-> << >>]
  ELSE
    LET kept == SecondLocked(locked, scr)
        rec2 == SecondRecorded(locked, scr)
        f2 == [k \in 1 .. Len(rec2) |-> FailedFile(d, rec2[k], scr[rec2[k]][2])]
        s2 == << Event("kill_locking_processes_batch", SeqToSet(locked),
                       ERROR_SUCCESS) >>
                \o Concat([k \in 1 .. Len(locked) |->
                             DeleteSteps(locked[k], scr[locked[k]][2],
                                         locked[k] \in SeqToSet(rec2))])
    IN IF kept = << >>
       THEN [fails |-> f2,
             esc |-> << [op |-> "kill_locking_processes_batch", dir |-> d,
                         paths |-> SeqToSet(locked)] >>,
             calls |-> [i \in SeqToSet(locked) |-> 2],
             steps |-> s2]
       ELSE
         LET rec3 == ThirdRecorded(kept, scr)
             f3 == [k \in 1 .. Len(rec3) |->
                      FailedFile(d, rec3[k], scr[rec3[k]][3])]
         IN [fails |-> f2 \o f3,
             esc |-> << [op |-> "kill_locking_processes_batch", dir |-> d,
                         paths |-> SeqToSet(locked)],
                        [op |-> "force_close_file_handles", dir |-> d,
                         paths |-> SeqToSet(kept)] >>,
             calls |-> [i \in SeqToSet(locked) |->
                          IF i \in SeqToSet(kept) THEN 3 ELSE 2],
             steps |-> s2
               \o << Event("force_close_file_handles", SeqToSet(kept),
                           ERROR_SUCCESS) >>
               \o Concat([k \in 1 .. Len(kept) |->
                            DeleteSteps(kept[k], scr[kept[k]][3],
                                        kept[k] \in SeqToSet(rec3))])]

\* Variant: the first pass stops at the first path whose delete fails.
Attempted_UntilFailure(ts, scr) ==
  LET stop == { k \in 1 .. Len(ts) : scr[ts[k]][1] # ERROR_SUCCESS }
                  \cup {Len(ts)}
  IN SubSeq(ts, 1, CHOOSE k \in stop : \A j \in stop : k <= j)

\* The paths the loop `for path in files` of the first pass calls delete_file
\* on: its body has a `continue` and no `break` or `return`.
Attempted(ts, scr) == ts

\* delete_files_sequential(files) on the list iv of directory d: the trouble
\* files of the list are ts (the others are deleted at once).
\* Returns [first, later, esc, stuck, errs, seen]: the FailedItems recorded
\* by the first pass and by handle_locked_files, the escalation calls, the
\* files of the list still present, the files some delete_file call failed
\* on, and the errors returned: <<i, k, code>> for the k-th delete_file call
\* on file i; calls[i] is the number of delete_file calls made on file i and
\* steps the calls made on the trouble files in program order.
delete_files_sequential(ts, d, kill, scr) ==
  LET at == Attempted(ts, scr)
      rec1 == FirstRecorded(at, kill, scr)
  IN (CHOOSE res \in {
           LET ncalls == [i \in SeqToSet(ts) |->
                            IF i \in DOMAIN h.calls THEN h.calls[i]
                            ELSE IF i \in SeqToSet(at) THEN 1 ELSE 0]
           IN [first |-> [k \in 1 .. Len(rec1) |->
                            FailedFile(d, rec1[k], scr[rec1[k]][1])],
               later |-> h.fails,
               esc |-> h.esc,
               stuck |-> { i \in SeqToSet(ts) :
                            IF ncalls[i] = 0 THEN TRUE
                            ELSE ~Vanished(scr[i][ncalls[i]]) },
               errs |-> { i \in SeqToSet(at) :
                           scr[i][1] # ERROR_SUCCESS },
               seen |-> { x \in { <<i, k, scr[i][k]>> :
                                    i \in SeqToSet(ts), k \in 1 .. 3 } :
                            x[2] <= ncalls[x[1]] /\ x[3] # ERROR_SUCCESS },
               calls |-> ncalls,
               quiet |-> { i \in SeqToSet(at) : Quiet(scr[i][ncalls[i]]) },
               steps |-> Concat([k \in 1 .. Len(at) |->
                                   DeleteSteps(at[k], scr[at[k]][1],
                                               at[k] \in SeqToSet(rec1))])
                           \o h.steps]
       : h \in { handle_locked_files(FirstLocked(at, kill, scr), d, scr) } } : TRUE)

\* delete_files_parallel(files): as delete_files_sequential, the closure of
\* filter_map running on the rayon pool.  order is the order in which the
\* closures of the trouble files run (any permutation of ts): the first pass
\* records its failures in that order.  collect() keeps the list order, so
\* locked_files is in list order whatever the closures' order.
delete_files_parallel(ts, d, kill, scr, order) ==
  LET rec1 == FirstRecorded(order, kill, scr)
  IN (CHOOSE res \in {
           LET ncalls == [i \in SeqToSet(ts) |->
                            IF i \in DOMAIN h.calls THEN h.calls[i] ELSE 1]
           IN [first |-> [k \in 1 .. Len(rec1) |->
                            FailedFile(d, rec1[k], scr[rec1[k]][1])],
               later |-> h.fails,
               esc |-> h.esc,
               stuck |-> { i \in SeqToSet(ts) :
                            ~Vanished(scr[i][ncalls[i]]) },
               errs |-> { i \in SeqToSet(ts) :
                           scr[i][1] # ERROR_SUCCESS },
               seen |-> { x \in { <<i, k, scr[i][k]>> :
                                    i \in SeqToSet(ts), k \in 1 .. 3 } :
                            x[2] <= ncalls[x[1]] /\ x[3] # ERROR_SUCCESS },
               calls |-> ncalls,
               quiet |-> { i \in SeqToSet(ts) : Quiet(scr[i][ncalls[i]]) },
               steps |-> Concat([k \in 1 .. Len(order) |->
                                   DeleteSteps(order[k], scr[order[k]][1],
                                               order[k] \in SeqToSet(rec1))])
                           \o h.steps]
       : h \in { handle_locked_files(FirstLocked(ts, kill, scr), d, scr) } } : TRUE)

\* delete_files_from_list(files) on a list of len files of directory d whose
\* trouble files are ts, on a machine of cpus cores: the strategy taken and
\* its run.
delete_files_from_list(ts, len, d, kill, scr, cpus, order) ==
  IF len = 0
  THEN [strategy |-> "none", run |-> delete_files_sequential(<< >>, d, kill, scr)]
  ELSE IF ~UsesParallel(len, cpus)
  THEN [strategy |-> "sequential",
        run |-> delete_files_sequential(ts, d, kill, scr)]
  ELSE [strategy |-> "parallel",
        run |-> delete_files_parallel(ts, d, kill, scr, order)]

\* ------------------------------------------------------------ remove_dir
\* What is left inside directory d: its files still present and its child
\* directory entries (junctions included) still present.
EntriesOf(t, f, d) ==
  { <<d, iv[1]>> : iv \in f.present[d] }
    \cup { <<c, 0>> : c \in Children(t, d) \ f.gone }

\* The OS's answer to the first orc.n delete attempts of one remove_dir call
\* is orc.code, to the orc.m attempts after them orc.then; after that the
\* answer follows from the directory's state.
DirOracle(code, n) ==
  [code |-> code, n |-> n, then |-> ERROR_SUCCESS, m |-> 0]

DirOracles ==
  { DirOracle(ERROR_SUCCESS, 0),
    DirOracle(ERROR_FILE_NOT_FOUND, 1),
    DirOracle(HardErrorCode, 1),
    DirOracle(ERROR_ACCESS_DENIED, 1),
    DirOracle(ERROR_ACCESS_DENIED,
              MAX_RETRIES + DIR_NOT_EMPTY_CLEANUP_ROUNDS) }

\* posix_delete_dir, the k-th attempt of a remove_dir call: [code, fs].
posix_delete_dir(t, f, d, orc, k) ==
  IF d \in f.gone THEN [code |-> ERROR_FILE_NOT_FOUND, fs |-> f]
  ELSE IF k <= orc.n + orc.m
  THEN LET c == IF k <= orc.n THEN orc.code ELSE orc.then
       IN [code |-> c,
           fs |-> IF Vanished(c)
                  THEN [f EXCEPT !.gone = @ \cup {d}, !.present[d] = {}]
                  ELSE f]
  ELSE IF EntriesOf(t, f, d) # {}
  THEN [code |-> ERROR_DIR_NOT_EMPTY, fs |-> f]
  ELSE [code |-> ERROR_SUCCESS, fs |-> [f EXCEPT !.gone = @ \cup {d}]]

\* cleanup_remaining_entries tests entry.is_dir only: a junction or directory
\* symlink carries the directory attribute as well.
CleanupRecurses(t, c) == TRUE

\* cleanup_remaining_entries(path): every entry enumerated under d is
\* deleted (directories after a recursive call on them), the results ignored.
\* `refuse` are the paths the OS refuses to delete: <<d, i>> file i of d,
\* <<c, 0>> directory entry c, <<j, -1>> the content of junction j's target.
\* Enumerating a junction lists its target's content.
RECURSIVE cleanup_remaining_entries(_, _, _, _)
RECURSIVE CleanupChildren(_, _, _, _)
CleanupChildren(t, f, cs, refuse) ==
  IF cs = << >> THEN f
  ELSE LET c == Head(cs)
       IN (CHOOSE res \in {
                (CHOOSE res \in { CleanupChildren(t, f2, Tail(cs), refuse)
                  : f2 \in { IF <<c, 0>> \notin refuse /\ EntriesOf(t, f1, c) = {}
                    THEN [f1 EXCEPT !.gone = @ \cup {c}]
                    ELSE f1 } } : TRUE)
            : f1 \in { IF CleanupRecurses(t, c)
              THEN cleanup_remaining_entries(t, f, c, refuse)
              ELSE f } } : TRUE)

cleanup_remaining_entries(t, f, d, refuse) ==
  LET f0 == IF d \in t.link /\ <<d, -1>> \notin refuse
            THEN [f EXCEPT !.behind = @ \ {d}]
            ELSE f
  IN (CHOOSE res \in {
           CleanupChildren(t, f1, Sorted(Children(t, d) \ f1.gone), refuse)
       : f1 \in { [f0 EXCEPT !.present[d] =
            { iv \in @ : iv[1] = iv[2] /\ <<d, iv[1]>> \in refuse }] } } : TRUE)

\* What the OS may refuse to delete during the cleanup passes of one
\* remove_dir(d) call: any of the entries left under d.
RECURSIVE LeftUnder(_, _, _)
LeftUnder(t, f, d) ==
  { <<d, iv[1]>> : iv \in { p \in f.present[d] : p[1] = p[2] } }
    \cup (IF d \in t.link /\ d \in f.behind THEN { <<d, -1>> } ELSE {})
    \cup UNION { { <<c, 0>> } \cup LeftUnder(t, f, c) :
                 c \in Children(t, d) \ f.gone }

\* The sleep that follows the i-th attempt (i from 1) of a standard retry
\* loop when it failed with a retryable error: <<i, ms>> per thread::sleep.
RetrySleep(i) ==
  IF i < MAX_RETRIES /\ RETRY_DELAYS_MS[i] > 0
  THEN << <<i, RETRY_DELAYS_MS[i]>> >>
  ELSE << >>

\* remove_dir's standard retry loop from attempt i on:
\* [code, fs, attempts, log, slept], log the result of every attempt made.
RECURSIVE StandardRetries(_, _, _, _, _)
StandardRetries(t, f, d, orc, i) ==
  (CHOOSE res \in {
        IF r.code = ERROR_SUCCESS \/ ~is_retryable_error(r.code)
        THEN [code |-> r.code, fs |-> r.fs, attempts |-> i,
              log |-> <<r.code>>, slept |-> << >>]
        ELSE IF i >= MAX_RETRIES
        THEN [code |-> r.code, fs |-> r.fs, attempts |-> i,
              log |-> <<r.code>>, slept |-> RetrySleep(i)]
        ELSE (CHOOSE res2 \in {
                 [rest EXCEPT !.log = <<r.code>> \o @,
                              !.slept = RetrySleep(i) \o @]
               : rest \in { StandardRetries(t, r.fs, d, orc, i + 1) } } : TRUE)
    : r \in { posix_delete_dir(t, f, d, orc, i) } } : TRUE)

\* remove_dir's active-cleanup passes from pass `round` on:
\* [code, fs, attempts, log, cslept, passes], cslept the sleeps made and
\* passes the cleanup_remaining_entries calls made.
RECURSIVE CleanupRounds(_, _, _, _, _, _, _)
CleanupRounds(t, f, d, orc, refuse, round, last) ==
  IF round > DIR_NOT_EMPTY_CLEANUP_ROUNDS
  THEN [code |-> last, fs |-> f, attempts |-> MAX_RETRIES + round - 1,
        log |-> << >>, cslept |-> << >>, passes |-> 0]
  ELSE (CHOOSE res \in {
             IF r.code = ERROR_SUCCESS
                \/ (~is_dir_not_empty_error(r.code)
                      /\ ~is_retryable_error(r.code))
             THEN [code |-> r.code, fs |-> r.fs,
                   attempts |-> MAX_RETRIES + round,
                   log |-> <<r.code>>,
                   cslept |-> << DIR_NOT_EMPTY_CLEANUP_DELAYS_MS[round] >>,
                   passes |-> 1]
             ELSE (CHOOSE res2 \in {
                      [rest EXCEPT
                         !.log = <<r.code>> \o @,
                         !.cslept =
                           << DIR_NOT_EMPTY_CLEANUP_DELAYS_MS[round] >> \o @,
                         !.passes = @ + 1]
                    : rest \in { CleanupRounds(t, r.fs, d, orc, refuse,
                                               round + 1, r.code) } } : TRUE)
         : r \in { posix_delete_dir(t, cleanup_remaining_entries(t, f, d, refuse),
                            d, orc, MAX_RETRIES + round) } } : TRUE)

\* remove_dir(path): [code, fs, attempts, log, slept, cslept, passes], code
\* 0 for Ok(()).
remove_dir(t, f, d, orc, refuse) ==
  (CHOOSE res \in {
        IF s.code # ERROR_SUCCESS /\ is_retryable_error(s.code)
           /\ is_dir_not_empty_error(s.code)
        THEN (CHOOSE res2 \in {
                 [code |-> c.code, fs |-> c.fs, attempts |-> c.attempts,
                  log |-> s.log \o c.log, slept |-> s.slept,
                  cslept |-> c.cslept, passes |-> c.passes]
               : c \in { CleanupRounds(t, s.fs, d, orc, refuse, 1, s.code) } }
               : TRUE)
        ELSE [code |-> s.code, fs |-> s.fs, attempts |-> s.attempts,
              log |-> s.log, slept |-> s.slept, cslept |-> << >>,
              passes |-> 0]
    : s \in { StandardRetries(t, f, d, orc, 1) } } : TRUE)

\* ------------------------------------------------------------ delete_file
\* delete_file's retry loop from attempt i on; answers[i] is what
\* posix_delete_file returns at the i-th attempt.
\* [code, attempts, log, slept].
RECURSIVE DeleteFileRetries(_, _)
DeleteFileRetries(answers, i) ==
  LET code == answers[i]
  IN IF code = ERROR_SUCCESS \/ ~is_retryable_error(code)
     THEN [code |-> code, attempts |-> i, log |-> <<code>>, slept |-> << >>]
     ELSE IF i >= MAX_RETRIES
     THEN [code |-> code, attempts |-> i, log |-> <<code>>,
           slept |-> RetrySleep(i)]
     ELSE LET rest == DeleteFileRetries(answers, i + 1)
          IN [rest EXCEPT !.log = <<code>> \o @,
                          !.slept = RetrySleep(i) \o @]

\* delete_file(path).
delete_file(answers) == DeleteFileRetries(answers, 1)

\* ------------------------------------------------------------ state
VARIABLES
  tree,            \* the DirectoryTree the broker was built from
  kill_processes,  \* WorkerConfig.kill_processes
  worker_count,    \* Broker.worker_count
  spawned,         \* the count given to spawn_workers
  child_counts,    \* Broker.child_counts: parent -> remaining children
  dir_files,       \* Broker.dir_files: directory -> file list
  pending_batches, \* Broker.pending_batches: directory -> batches in flight
  queue,           \* the unbounded channel work_tx -> rx
  completed,       \* Broker.completed
  done,            \* Broker.done
  pc,              \* per worker: where its thread stands
  cur,             \* per worker: the work item it is handling
  tosend,          \* per worker: items schedule_directory has still to send
  failures,        \* ErrorTracker.failures (a FIFO queue)
  fs,              \* the file system under the root
  hist,            \* what has happened so far (observation only)
  call,            \* one call of a function, taken alone: input and result
  outcome,         \* what delete_directory_internal has returned, if it has
  scan             \* discover_tree at work: the disk, the shared maps, the
                   \* scan_parallel calls under way, the tree returned

vars == << tree, kill_processes, worker_count, spawned, child_counts,
           dir_files, pending_batches, queue, completed, done, pc, cur,
           tosend, failures, fs, hist, call, outcome, scan >>

\* No function call is looked at alone.
NoCall == [op |-> "none"]
\* The scan is over and its tree handed to the broker.
NoScan == [op |-> "none"]
\* delete_directory_internal has not returned.
NoOutcome == [op |-> "none"]

Workers == 1 .. spawned
total_dirs == tree.n
\* Broker.parent_map
parent_map == tree.parent

\* Variant: the counter goes down by two.
fetch_sub_Two(c) == IF c >= 2 THEN c - 2 ELSE -1

\* AtomicUsize::fetch_sub(1): the value stored; below zero the unsigned
\* counter wraps to usize::MAX, written -1.
fetch_sub(c) == IF c >= 1 THEN c - 1 ELSE -1

\* Variant: the decrement that saw 2 is taken for the last.
WasLast_Early(prev) == prev = 2

\* Variant: the last directory is not waited for.
AllAccounted_OneShort(n, total) == n + 1 = total

\* Variant: the shutdown starts as soon as one directory at most is left.
AllAccounted_OneLeft(n, total) == n + 1 >= total

\* Variant: the first completion is taken for the last.
AllAccounted_First(n, total) == n = 1

\* Variant: every completion is taken for the last.
AllAccounted_Always(n, total) == n >= 1

\* Variant: two Shutdown items per worker.
ShutdownCount_Double(wc) == 2 * wc

\* Variant: one Shutdown too many.
ShutdownCount_Extra(wc) == wc + 1

\* mark_complete / mark_batch_complete: the decrement that saw 1 was the last.
WasLast(prev) == prev = 1

\* mark_complete: all directories are accounted for.
AllAccounted(n, total) == n = total

\* mark_complete: for _ in 0..self.worker_count { send(Shutdown) }
ShutdownCount(wc) == wc

HistInit(t) ==
  [ mc |-> << >>,                          \* mark_complete calls, in order
    pd |-> [d \in Dirs(t) |-> 0],          \* ProcessDir(d) items enqueued
    df |-> [d \in Dirs(t) |-> << >>],      \* DeleteFiles chunks enqueued
    sd |-> 0,                              \* Shutdown items enqueued
    pdRecv |-> [d \in Dirs(t) |-> 0],      \* ProcessDir(d) items received
    bd |-> [d \in Dirs(t) |-> 0],          \* mark_batch_complete(d) calls
    took |-> [d \in Dirs(t) |-> << >>],    \* lists take_files returned
    attempted |-> [d \in Dirs(t) |-> {}],  \* lists whose delete pass ended
    rm |-> {},                             \* remove_dir(d) invoked
    esc |-> {},                            \* escalation calls made
    anyErr |-> FALSE,                      \* some delete call failed
    faulty |-> {},                         \* paths the OS made trouble on
    quiet |-> {},                          \* paths whose last delete call
                                           \* answered Ok or not-found
    first |-> {} ]                         \* <<d, i, code>>: the error the
                                           \* first delete_file call on file
                                           \* i of d returned

\* Counting what Broker::new enqueued.
RECURSIVE CountSent(_, _)
CountSent(h, q) ==
  IF q = << >> THEN h
  ELSE LET it == Head(q)
           h1 == IF it.type = "ProcessDir"
                 THEN [h EXCEPT !.pd[it.dir] = @ + 1]
                 ELSE [h EXCEPT !.df[it.dir] = Append(@, it.files)]
       IN CountSent(h1, Tail(q))

\* Broker::new(tree, worker_count), then spawn_workers(spawned, ...).
PoolInit ==
  /\ tree \in Trees
  /\ kill_processes \in BOOLEAN
  /\ worker_count \in 1 .. MaxWorkers
  /\ spawned = worker_count
  /\ child_counts =
       [ d \in { x \in Dirs(tree) : Children(tree, x) # {} } |->
           Cardinality(Children(tree, d)) ]
  /\ \E order \in { Sorted(Leaves(tree)) } :
       LET b == ScheduleLeaves([df |-> TreeDirFiles(tree),
                                pb |-> [x \in {} |-> 0],
                                q |-> << >>], order)
       IN /\ dir_files = b.df
          /\ pending_batches = b.pb
          /\ queue = b.q
          /\ hist = CountSent(HistInit(tree), b.q)
  /\ completed = 0
  /\ done = FALSE
  /\ pc = [w \in Workers |-> "recv"]
  /\ cur = [w \in Workers |-> Shutdown]
  /\ tosend = [w \in Workers |-> << >>]
  /\ failures = << >>
  /\ fs = FsInit(tree)

Init ==
  /\ PoolInit
  /\ call = NoCall
  /\ outcome = NoOutcome
  /\ scan = NoScan

\* ------------------------------------------------------------ new_dirs_only
\* The maps and the queue Broker::new builds from the tree t.
BrokerNew(t) ==
  ScheduleLeaves([df |-> TreeDirFiles(t), pb |-> [x \in {} |-> 0],
                  q |-> << >>], Sorted(Leaves(t)))

\* Variant: new_dirs_only copies the file lists as Broker::new does.
new_dirs_only_KeepFiles(t) ==
  [df |-> TreeDirFiles(t), pb |-> [x \in {} |-> 0],
   q |-> [i \in 1 .. Len(Sorted(Leaves(t))) |->
            ProcessDir(Sorted(Leaves(t))[i])]]

\* Broker::new_dirs_only: dir_files and pending_batches start empty, and
\* one ProcessDir per leaf is sent without schedule_directory.
new_dirs_only(t) ==
  [df |-> [x \in {} |-> <<1, 0>>], pb |-> [x \in {} |-> 0],
   q |-> [i \in 1 .. Len(Sorted(Leaves(t))) |->
            ProcessDir(Sorted(Leaves(t))[i])]]

\* Broker::new_dirs_only(tree, worker_count), then spawn_workers: the
\* files of the tree are still on disk.
DirsOnlyInit ==
  /\ tree \in Trees
  /\ kill_processes \in BOOLEAN
  /\ worker_count \in 1 .. MaxWorkers
  /\ spawned = worker_count
  /\ child_counts =
       [ d \in { x \in Dirs(tree) : Children(tree, x) # {} } |->
           Cardinality(Children(tree, d)) ]
  /\ \E b \in { new_dirs_only(tree) } :
       /\ dir_files = b.df
       /\ pending_batches = b.pb
       /\ queue = b.q
       /\ hist = CountSent(HistInit(tree), b.q)
  /\ completed = 0
  /\ done = FALSE
  /\ pc = [w \in Workers |-> "recv"]
  /\ cur = [w \in Workers |-> Shutdown]
  /\ tosend = [w \in Workers |-> << >>]
  /\ failures = << >>
  /\ fs = FsInit(tree)
  /\ call = NoCall
  /\ outcome = NoOutcome
  /\ scan = NoScan

\* ------------------------------------------------------------ channel
\* work_tx.send(item), and its trace in hist.
Sent(h, it) ==
  IF it.type = "ProcessDir" THEN [h EXCEPT !.pd[it.dir] = @ + 1]
  ELSE IF it.type = "DeleteFiles"
  THEN [h EXCEPT !.df[it.dir] = Append(@, it.files)]
  ELSE [h EXCEPT !.sd = @ + 1]

\* worker_thread: rx.recv() and the match on the item.
Recv(w) ==
  /\ pc[w] = "recv"
  /\ queue # << >>
  /\ LET it == Head(queue)
     IN /\ queue' = Tail(queue)
        /\ cur' = [cur EXCEPT ![w] = it]
        /\ pc' = [pc EXCEPT ![w] =
                    IF it.type = "DeleteFiles" THEN "df_delete"
                    ELSE IF it.type = "ProcessDir" THEN "pd_files"
                    ELSE "exited"]
        /\ hist' = IF it.type = "ProcessDir"
                   THEN [hist EXCEPT !.pdRecv[it.dir] = @ + 1]
                   ELSE hist
  /\ UNCHANGED << outcome, scan, call, tree, kill_processes, worker_count, spawned, child_counts,
                  dir_files, pending_batches, completed, done, tosend,
                  failures, fs >>

\* One send of a loop of sends (the batch loop of schedule_directory, the
\* Shutdown loop of mark_complete); after the last the function returns.
SendItem(w) ==
  /\ pc[w] = "sending"
  /\ tosend[w] # << >>
  /\ queue' = Append(queue, Head(tosend[w]))
  /\ hist' = Sent(hist, Head(tosend[w]))
  /\ tosend' = [tosend EXCEPT ![w] = Tail(@)]
  /\ pc' = [pc EXCEPT ![w] = IF Tail(tosend[w]) = << >> THEN "recv"
                             ELSE "sending"]
  /\ UNCHANGED << outcome, scan, call, tree, kill_processes, worker_count, spawned, child_counts,
                  dir_files, pending_batches, completed, done, cur,
                  failures, fs >>

\* ------------------------------------------------------------ worker
\* The runs delete_files_from_list(files) may take on the list iv of
\* directory d: one per answer of the OS within the fault bound and, for the
\* parallel strategy, per order in which the first pass records its
\* failures.  A file that is no longer there answers not-found.
\* Each run is [fails, esc, stuck, errs, seen, quiet].
DeleteRuns(d, iv, faulty) ==
  (CHOOSE res \in {
        UNION {
          (CHOOSE res \in {
                { [fails |-> first \o r.later, esc |-> SeqToSet(r.esc),
                   stuck |-> r.stuck, errs |-> r.errs, seen |-> r.seen,
                   quiet |-> r.quiet] :
                    first \in (IF UsesParallel(IvLen(iv), CpuCount)
                               THEN Perms(SeqToSet(r.first))
                               ELSE { r.first }) }
            : r \in { delete_files_sequential(ts, d, kill_processes, scr) } } : TRUE) :
            scr \in { x \in [SeqToSet(ts) -> FileScripts(kill_processes)] :
                        Cardinality(faulty \cup
                          { <<d, i>> : i \in { j \in SeqToSet(ts) :
                                                 x[j][1] # ERROR_SUCCESS } })
                          <= MaxFaulty } }
    : ts \in { Sorted({ i \in TroubleFiles(tree, d) \cap IvSet(iv) :
                 FilePresent(fs, d, i) }) } } : TRUE)

\* delete_files_from_list(files) for the list iv of directory d, h the
\* history so far.
DeleteList(d, iv, h) ==
  IF IvLen(iv) = 0
  THEN /\ failures' = failures
       /\ fs' = fs
       /\ hist' = h
  ELSE \E r \in DeleteRuns(d, iv, h.faulty) :
         /\ failures' = failures \o r.fails
         /\ fs' = [fs EXCEPT !.present[d] =
                     CutRange(@, iv[1], iv[2])
                       \cup { <<i, i>> : i \in r.stuck }]
         /\ hist' = [h EXCEPT !.attempted[d] = @ \cup {iv},
                              !.esc = @ \cup r.esc,
                              !.anyErr = @ \/ r.errs # {},
                              !.faulty = @ \cup { <<d, i>> : i \in r.errs },
                              !.quiet = @ \cup { <<d, i>> : i \in r.quiet },
                              !.first = @ \cup
                                { <<d, x[1], x[3]>> :
                                    x \in { y \in r.seen : y[2] = 1 } }]

\* worker_thread, DeleteFiles arm: delete_files_from_list(&files).
DfDelete(w) ==
  /\ pc[w] = "df_delete"
  /\ DeleteList(cur[w].dir, cur[w].files, hist)
  /\ pc' = [pc EXCEPT ![w] = "mb_fetch_sub"]
  /\ UNCHANGED << outcome, scan, call, tree, kill_processes, worker_count, spawned, child_counts,
                  dir_files, pending_batches, queue, completed, done, cur,
                  tosend >>

\* mark_batch_complete: pending_batches.get(dir) and the fetch_sub.
MbFetchSub(w) ==
  /\ pc[w] = "mb_fetch_sub"
  /\ LET d == cur[w].dir
     IN /\ hist' = [hist EXCEPT !.bd[d] = @ + 1]
        /\ IF d \in DOMAIN pending_batches
           THEN /\ pending_batches' =
                     [pending_batches EXCEPT ![d] = fetch_sub(@)]
                /\ pc' = [pc EXCEPT ![w] =
                            IF WasLast(pending_batches[d]) THEN "mb_send"
                            ELSE "recv"]
           ELSE /\ pending_batches' = pending_batches
                /\ pc' = [pc EXCEPT ![w] = "recv"]
  /\ UNCHANGED << outcome, scan, call, tree, kill_processes, worker_count, spawned, child_counts,
                  dir_files, queue, completed, done, cur, tosend,
                  failures, fs >>

\* mark_batch_complete, last batch: remove the tracker, send ProcessDir.
MbSend(w) ==
  /\ pc[w] = "mb_send"
  /\ pending_batches' = MapDel(pending_batches, cur[w].dir)
  /\ queue' = Append(queue, ProcessDir(cur[w].dir))
  /\ hist' = Sent(hist, ProcessDir(cur[w].dir))
  /\ pc' = [pc EXCEPT ![w] = "recv"]
  /\ UNCHANGED << outcome, scan, call, tree, kill_processes, worker_count, spawned, child_counts,
                  dir_files, completed, done, cur, tosend, failures, fs >>

\* process_directory: broker.take_files(dir) and delete_files_from_list.
PdFiles(w) ==
  /\ pc[w] = "pd_files"
  /\ LET d == cur[w].dir
     IN IF d \in DOMAIN dir_files
        THEN /\ dir_files' = MapDel(dir_files, d)
             /\ DeleteList(d, dir_files[d],
                           [hist EXCEPT !.took[d] = Append(@, dir_files[d])])
        ELSE /\ dir_files' = dir_files
             /\ UNCHANGED << failures, fs, hist >>
  /\ pc' = [pc EXCEPT ![w] = "pd_remove"]
  /\ UNCHANGED << outcome, scan, call, tree, kill_processes, worker_count, spawned, child_counts,
                  pending_batches, queue, completed, done, cur, tosend >>

\* The calls process_directory makes from remove_dir(dir) on, in program
\* order: codes are the answers of its remove_dir calls, the second made
\* after kill_locking_processes and the third after force_close_file_handles;
\* recorded holds when it ends in error_tracker.record_failure.
DirSteps(codes, recorded) ==
  << Event("remove_dir", {0}, codes[1]) >>
    \o (IF Len(codes) >= 2
        THEN << Event("kill_locking_processes", {0}, ERROR_SUCCESS),
                Event("remove_dir", {0}, codes[2]) >>
        ELSE << >>)
    \o (IF Len(codes) >= 3
        THEN << Event("force_close_file_handles", {0}, ERROR_SUCCESS),
                Event("remove_dir", {0}, codes[3]) >>
        ELSE << >>)
    \o (IF recorded
        THEN << Event("record_failure", {0}, codes[1]) >>
        ELSE << >>)

\* process_directory from remove_dir(dir) on: the path taken through the
\* handler, the file system afterwards, the FailedItem recorded and the
\* escalation calls made.  o1, o2, o3 are the OS's answers to the first
\* remove_dir call, the one after the process kill and the one after the
\* force-close.
remove_with_escalation(t, f, d, kill, o1, o2, o3, refuse) ==
  LET killOp == [op |-> "kill_locking_processes", dir |-> d, paths |-> {0}]
      closeOp == [op |-> "force_close_file_handles", dir |-> d, paths |-> {0}]
      Recorded(r1, r, esc, codes) ==
        [path |-> "recorded", fs |-> r.fs,
         fails |-> << FailedDir(d, r1.code) >>, esc |-> esc, err |-> TRUE,
         codes |-> codes, steps |-> DirSteps(codes, TRUE)]
      AfterClose(r1, r2) ==
        (CHOOSE res \in {
              IF r3.code = ERROR_SUCCESS
              THEN [path |-> "removed_after_close", fs |-> r3.fs,
                    fails |-> << >>, esc |-> {killOp, closeOp},
                    err |-> TRUE, codes |-> <<r1.code, r2.code, r3.code>>,
                    steps |-> DirSteps(<<r1.code, r2.code, r3.code>>, FALSE)]
              ELSE IF is_not_found_error(r3.code)
              THEN [path |-> "not_found_after_close", fs |-> r3.fs,
                    fails |-> << >>, esc |-> {killOp, closeOp},
                    err |-> TRUE, codes |-> <<r1.code, r2.code, r3.code>>,
                    steps |-> DirSteps(<<r1.code, r2.code, r3.code>>, FALSE)]
              ELSE Recorded(r1, r3, {killOp, closeOp},
                            <<r1.code, r2.code, r3.code>>)
          : r3 \in { remove_dir(t, r2.fs, d, o3, refuse) } } : TRUE)
      AfterKill(r1) ==
        (CHOOSE res \in {
              IF r2.code = ERROR_SUCCESS
              THEN [path |-> "removed_after_kill", fs |-> r2.fs,
                    fails |-> << >>, esc |-> {killOp}, err |-> TRUE,
                    codes |-> <<r1.code, r2.code>>,
                    steps |-> DirSteps(<<r1.code, r2.code>>, FALSE)]
              ELSE AfterClose(r1, r2)
          : r2 \in { remove_dir(t, r1.fs, d, o2, refuse) } } : TRUE)
  IN (CHOOSE res \in {
           IF r1.code = ERROR_SUCCESS
           THEN [path |-> "removed", fs |-> r1.fs, fails |-> << >>,
                 esc |-> {}, err |-> FALSE, codes |-> <<r1.code>>,
                 steps |-> DirSteps(<<r1.code>>, FALSE)]
           ELSE IF is_not_found_error(r1.code)
           THEN [path |-> "not_found", fs |-> r1.fs, fails |-> << >>,
                 esc |-> {}, err |-> TRUE, codes |-> <<r1.code>>,
                 steps |-> DirSteps(<<r1.code>>, FALSE)]
           ELSE IF kill /\ is_file_in_use_error(r1.code)
           THEN AfterKill(r1)
           ELSE Recorded(r1, r1, {}, <<r1.code>>)
       : r1 \in { remove_dir(t, f, d, o1, refuse) } } : TRUE)

\* Variant: the recorded-failure path returns without mark_complete.
MarkCompleteCalls_NotOnFailure(path) == IF path = "recorded" THEN 0 ELSE 1

\* Variant: the not-found path returns without mark_complete.
MarkCompleteCalls_NotOnNotFound(path) == IF path = "not_found" THEN 0 ELSE 1

\* The broker.mark_complete(dir.clone()) calls on a path through
\* process_directory: each return is preceded by exactly one.
MarkCompleteCalls(path) == 1

\* The answers the OS may give to the remove_dir calls of one
\* process_directory(d): <<o1, o2, o3>>; the later calls are made only after
\* an in-use failure with kill_processes on.
DirAnswers(kill) ==
  { <<o, o, o>> : o \in { x \in DirOracles : ~(kill /\ x.n > 1) } }
    \cup (IF kill
          THEN { <<o1, o2, o3>> : o1 \in { x \in DirOracles : x.n > 1 },
                                  o2, o3 \in DirOracles }
          ELSE {})

\* The runs process_directory(d) may take from remove_dir(dir) on: one per
\* answer of the OS within the fault bound.
RemoveRuns(d) ==
  LET Bad(os) == IF os[1].n > 0 THEN hist.faulty \cup { <<d, 0>> }
                 ELSE hist.faulty
  IN { [run |-> remove_with_escalation(tree, fs, d, kill_processes,
                                       os[1], os[2], os[3], refuse),
        bad |-> Bad(os)] :
         os \in { x \in DirAnswers(kill_processes) :
                    Cardinality(Bad(x)) <= MaxFaulty },
         refuse \in SUBSET LeftUnder(tree, fs, d) }

\* process_directory: remove_dir(dir), the escalation, the record.
PdRemove(w) ==
  /\ pc[w] = "pd_remove"
  /\ \E r \in RemoveRuns(cur[w].dir) :
       /\ fs' = r.run.fs
       /\ failures' = failures \o r.run.fails
       /\ hist' = [hist EXCEPT !.rm = @ \cup {cur[w].dir},
                               !.esc = @ \cup r.run.esc,
                               !.anyErr = @ \/ r.run.err,
                               !.quiet = @ \cup
                                 (IF Quiet(r.run.codes[Len(r.run.codes)])
                                  THEN { <<cur[w].dir, 0>> } ELSE {}),
                               !.faulty = r.bad]
       /\ pc' = [pc EXCEPT ![w] =
                   IF MarkCompleteCalls(r.run.path) >= 1
                   THEN "mc_fetch_add" ELSE "recv"]
  /\ UNCHANGED << outcome, scan, call, tree, kill_processes, worker_count, spawned, child_counts,
                  dir_files, pending_batches, queue, completed, done, cur,
                  tosend >>

\* ------------------------------------------------------------ mark_complete
\* completed.fetch_add(1) + 1, and the test against total_dirs.
McFetchAdd(w) ==
  /\ pc[w] = "mc_fetch_add"
  /\ completed' = completed + 1
  /\ hist' = [hist EXCEPT !.mc = Append(@, cur[w].dir)]
  /\ pc' = [pc EXCEPT ![w] =
              IF AllAccounted(completed + 1, total_dirs) THEN "mc_set_done"
              ELSE "mc_done_load"]
  /\ UNCHANGED << outcome, scan, call, tree, kill_processes, worker_count, spawned, child_counts,
                  dir_files, pending_batches, queue, done, cur, tosend,
                  failures, fs >>

\* done.store(true); the Shutdown loop follows.
McSetDone(w) ==
  /\ pc[w] = "mc_set_done"
  /\ done' = TRUE
  /\ tosend' = [tosend EXCEPT ![w] = [i \in 1 .. ShutdownCount(worker_count) |-> Shutdown]]
  /\ pc' = [pc EXCEPT ![w] = "sending"]
  /\ UNCHANGED << outcome, scan, call, tree, kill_processes, worker_count, spawned, child_counts,
                  dir_files, pending_batches, queue, completed, cur,
                  failures, fs, hist >>

\* Fast path: if done.load() { return }.
McDoneLoad(w) ==
  /\ pc[w] = "mc_done_load"
  /\ pc' = [pc EXCEPT ![w] = IF done THEN "recv" ELSE "mc_fetch_sub"]
  /\ UNCHANGED << outcome, scan, call, tree, kill_processes, worker_count, spawned, child_counts,
                  dir_files, pending_batches, queue, completed, done, cur,
                  tosend, failures, fs, hist >>

\* parent_map.get(&dir), child_counts.get(&parent), fetch_sub(1) == 1.
McFetchSub(w) ==
  /\ pc[w] = "mc_fetch_sub"
  /\ LET d == cur[w].dir
     IN IF d \in DOMAIN parent_map /\ parent_map[d] \in DOMAIN child_counts
        THEN /\ child_counts' =
                  [child_counts EXCEPT ![parent_map[d]] = fetch_sub(@)]
             /\ pc' = [pc EXCEPT ![w] =
                         IF WasLast(child_counts[parent_map[d]])
                         THEN "mc_schedule" ELSE "recv"]
        ELSE /\ child_counts' = child_counts
             /\ pc' = [pc EXCEPT ![w] = "recv"]
  /\ UNCHANGED << outcome, scan, call, tree, kill_processes, worker_count, spawned, dir_files,
                  pending_batches, queue, completed, done, cur, tosend,
                  failures, fs, hist >>

\* child_counts.remove(&parent); schedule_directory(&parent) up to its
\* first send.
McSchedule(w) ==
  /\ pc[w] = "mc_schedule"
  /\ LET p == parent_map[cur[w].dir]
     IN /\ child_counts' = MapDel(child_counts, p)
        /\ IF NeedsBatching(FileCountOf(dir_files, p))
           THEN /\ dir_files' = MapDel(dir_files, p)
                /\ pending_batches' =
                     InsertPending(pending_batches, p, IvLen(dir_files[p]))
                /\ tosend' = [tosend EXCEPT ![w] =
                                BatchItems(dir_files[p], p)]
                /\ pc' = [pc EXCEPT ![w] = "sending"]
                /\ UNCHANGED << queue, hist >>
           ELSE /\ queue' = Append(queue, ProcessDir(p))
                /\ hist' = Sent(hist, ProcessDir(p))
                /\ pc' = [pc EXCEPT ![w] = "recv"]
                /\ UNCHANGED << dir_files, pending_batches, tosend >>
  /\ UNCHANGED << outcome, scan, call, tree, kill_processes, worker_count, spawned, completed,
                  done, cur, failures, fs >>

\* ------------------------------------------------------------ specification
Step(w) ==
  \/ Recv(w)
  \/ SendItem(w)
  \/ DfDelete(w)
  \/ MbFetchSub(w)
  \/ MbSend(w)
  \/ PdFiles(w)
  \/ PdRemove(w)
  \/ McFetchAdd(w)
  \/ McSetDone(w)
  \/ McDoneLoad(w)
  \/ McFetchSub(w)
  \/ McSchedule(w)

Next == \E w \in Workers : Step(w)

Spec == Init /\ [][Next]_vars

\* Every worker is an OS thread of its own: a worker that can take a step
\* eventually takes one.
FairSpec == Spec /\ \A w \in 1 .. MaxWorkers : WF_vars(w \in Workers /\ Step(w))

AllExited == \A w \in Workers : pc[w] = "exited"

\* spawn_workers(count, ...) with a count of its own: Broker::new is given
\* worker_count, and the pool is made of `spawned` threads.  The runs are
\* those without escalation.
SpawnInit ==
  /\ tree \in Trees
  /\ kill_processes = FALSE
  /\ worker_count \in 1 .. MaxWorkers
  /\ spawned \in 1 .. MaxWorkers
  /\ child_counts =
       [ d \in { x \in Dirs(tree) : Children(tree, x) # {} } |->
           Cardinality(Children(tree, d)) ]
  /\ \E b \in { BrokerNew(tree) } :
       /\ dir_files = b.df
       /\ pending_batches = b.pb
       /\ queue = b.q
       /\ hist = CountSent(HistInit(tree), b.q)
  /\ completed = 0
  /\ done = FALSE
  /\ pc = [w \in Workers |-> "recv"]
  /\ cur = [w \in Workers |-> Shutdown]
  /\ tosend = [w \in Workers |-> << >>]
  /\ failures = << >>
  /\ fs = FsInit(tree)
  /\ call = NoCall
  /\ outcome = NoOutcome
  /\ scan = NoScan

SpawnSpec ==
  /\ SpawnInit /\ [][Next]_vars
  /\ \A w \in 1 .. MaxWorkers : WF_vars(w \in Workers /\ Step(w))

\* The worker pool on a broker built by new_dirs_only.
DirsOnlySpec == DirsOnlyInit /\ [][Next]_vars

\* ------------------------------------------------------------ ErrorTracker
\* Variant: the last failure popped is not pushed to the result.
RECURSIVE get_failures_DropLast(_, _)
get_failures_DropLast(q, result) ==
  IF q = << >> THEN [result |-> result, failures |-> q]
  ELSE IF Len(q) = 1 THEN [result |-> result, failures |-> << >>]
  ELSE get_failures_DropLast(Tail(q), Append(result, Head(q)))

\* ErrorTracker::get_failures: while let Some(item) = failures.pop()
\* { result.push(item) }, on the queue q.
RECURSIVE get_failures(_, _)
get_failures(q, result) ==
  IF q = << >> THEN [result |-> result, failures |-> q]
  ELSE get_failures(Tail(q), Append(result, Head(q)))

\* Variant: the main thread does not wait for the workers.
Joined_NoWait == TRUE

\* for handle in handles { handle.join() }: every worker thread has ended.
Joined == AllExited

\* The Result of delete_directory_internal, from the drained failures.
DeletionResult(t, errors) ==
  IF errors # << >>
  THEN [op |-> "Err", total |-> t.n + SumOver(t.files, Dirs(t)),
        failed |-> Len(errors), errors |-> errors]
  ELSE [op |-> "Ok", total |-> t.n + SumOver(t.files, Dirs(t)),
        failed |-> 0, errors |-> << >>]

\* delete_directory_internal after spawn_workers: join the workers, drain
\* the tracker, return PartialFailure or the statistics.
Finish ==
  /\ outcome = NoOutcome
  /\ Joined
  /\ LET r == get_failures(failures, << >>)
     IN /\ failures' = r.failures
        /\ outcome' = DeletionResult(tree, r.result)
  /\ UNCHANGED << scan, call, tree, kill_processes, worker_count, spawned,
                  child_counts, dir_files, pending_batches, queue, completed,
                  done, pc, cur, tosend, fs, hist >>

MainNext ==
  \/ Next
  \/ Finish

\* The worker pool and the thread that started it.
MainSpec == Init /\ [][MainNext]_vars

\* ------------------------------------------------------------ single calls
\* One function called once, on its own, with any input of a bounded set:
\* the pool stands still (a one-directory tree, no worker has moved) and
\* `call` takes the input and the result.
CallTree == [n |-> 1, parent |-> << >>, link |-> {}, files |-> <<0>>]

CallInit ==
  /\ tree = CallTree
  /\ kill_processes = FALSE
  /\ worker_count = 1
  /\ Init

PoolUnchanged ==
  UNCHANGED << tree, kill_processes, worker_count, spawned, child_counts,
               dir_files, pending_batches, queue, completed, done, pc, cur,
               tosend, failures, fs, hist, outcome >>

\* Every GetLastError value a delete_file call on a file is given here.
CallFileCodes == FileCodes \cup {ERROR_PATH_NOT_FOUND, ERROR_BAD_PATHNAME}

\* delete_files_sequential(files) on a list of one or two trouble files of
\* directory 1.
CallDeleteFiles ==
  /\ call = NoCall
  /\ \E kill \in BOOLEAN, n \in 1 .. 2 :
       \E scr \in [1 .. n -> ScriptsOver(CallFileCodes, kill)] :
         call' = [op |-> "delete_files_sequential", kill |-> kill,
                  scr |-> scr,
                  out |-> delete_files_sequential([i \in 1 .. n |-> i], 1,
                                                  kill, scr)]
  /\ PoolUnchanged /\ UNCHANGED scan

\* cpu_count() on the machines the list is handled on, the lengths of the
\* lists (0 and both sides of each threshold) and what delete_file answers.
CpuCounts == {1, 4, 5, 8, 9, 16, 17}
ListLens == {0, 1, 7, 8, 11, 12, 15, 16, 23, 24, 25}
ListCodes ==
  {ERROR_SUCCESS, ERROR_FILE_NOT_FOUND, ERROR_ACCESS_DENIED, HardErrorCode}

\* delete_files_from_list(files) on a list of directory 1 whose trouble
\* files are the first and the last.
CallDeleteFilesFromList ==
  /\ call = NoCall
  /\ \E kill \in BOOLEAN, len \in ListLens, cpus \in CpuCounts :
       \E scr \in [{1, len} \cap (1 .. len) -> ScriptsOver(ListCodes, kill)],
          order \in Perms({1, len} \cap (1 .. len)) :
         call' = [op |-> "delete_files_from_list", kill |-> kill,
                  len |-> len, cpus |-> cpus, scr |-> scr, order |-> order,
                  out |-> delete_files_from_list(
                            Sorted({1, len} \cap (1 .. len)), len, 1, kill,
                            scr, cpus, order)]
  /\ PoolUnchanged /\ UNCHANGED scan

\* The trees process_directory is called on: a directory alone, with a file,
\* with a child directory, with a junction child.
CallTrees ==
  { t \in Trees : t.n <= 2 /\ \A d \in Dirs(t) : t.files[d] <= 1 }

CallDirAnswers(kill) ==
  DirAnswers(kill)
    \cup { << DirOracle(c, 1), DirOracle(c, 1), DirOracle(c, 1) >> :
             c \in {ERROR_PATH_NOT_FOUND, ERROR_INVALID_NAME} }

\* What posix_delete_file / posix_delete_dir may return.
PrimitiveCodes ==
  {ERROR_SUCCESS, ERROR_FILE_NOT_FOUND, ERROR_ACCESS_DENIED,
   ERROR_SHARING_VIOLATION, ERROR_LOCK_VIOLATION, ERROR_DIR_NOT_EMPTY,
   HardErrorCode}

CallDeleteFile ==
  /\ call = NoCall
  /\ \E answers \in [1 .. MAX_RETRIES -> PrimitiveCodes] :
       call' = [op |-> "delete_file", answers |-> answers,
                out |-> delete_file(answers)]
  /\ PoolUnchanged /\ UNCHANGED scan

\* The answers to the delete attempts of one remove_dir call: some retryable
\* failures, then some answers of another kind, then what the directory's
\* state commands.
RetryOracles ==
  { [code |-> c1, n |-> n1, then |-> c2, m |-> n2] :
      c1 \in {ERROR_ACCESS_DENIED, ERROR_DIR_NOT_EMPTY},
      n1 \in 0 .. MAX_RETRIES,
      c2 \in PrimitiveCodes \ {ERROR_LOCK_VIOLATION},
      n2 \in 0 .. DIR_NOT_EMPTY_CLEANUP_ROUNDS }

\* remove_dir(path) on the root of t with everything the scanner listed
\* still there.
CallRemoveDir ==
  /\ call = NoCall
  /\ \E t \in CallTrees, orc \in RetryOracles :
       \E refuse \in SUBSET LeftUnder(t, FsInit(t), 1) :
         call' = [op |-> "remove_dir", t |-> t, orc |-> orc,
                  refuse |-> refuse,
                  out |-> remove_dir(t, FsInit(t), 1, orc, refuse)]
  /\ PoolUnchanged /\ UNCHANGED scan

\* process_directory(dir) from remove_dir(dir) on, dir the root of t with
\* everything the scanner listed still there.
CallProcessDir ==
  /\ call = NoCall
  /\ \E t \in CallTrees, kill \in BOOLEAN :
       \E os \in CallDirAnswers(kill),
          refuse \in SUBSET LeftUnder(t, FsInit(t), 1) :
         call' = [op |-> "process_directory", kill |-> kill, t |-> t,
                  os |-> os, refuse |-> refuse,
                  out |-> remove_with_escalation(t, FsInit(t), 1, kill,
                            os[1], os[2], os[3], refuse)]
  /\ PoolUnchanged /\ UNCHANGED scan

\* ------------------------------------------------------------ WorkerConfig
WorkerConfigs ==
  [verbose : BOOLEAN, ignore_errors : BOOLEAN, kill_processes : BOOLEAN]

\* Variant: no escalation while errors are ignored.
Escalates_UnlessIgnoring(config) ==
  config.kill_processes /\ ~config.ignore_errors

\* config.kill_processes: the one field of the configuration the workers
\* branch on outside of printing.
Escalates(config) == config.kill_processes

\* if config.verbose { eprintln!("Warning: Failed to ...") }: one line per
\* failure recorded, before record_failure.
Warnings(config, fails) ==
  IF config.verbose THEN [k \in 1 .. Len(fails) |-> fails[k].path] ELSE << >>

\* A worker under `config` on a list of one file of directory 1
\* (delete_files_sequential) and on ProcessDir of the root of t
\* (process_directory from remove_dir on): the calls made and their
\* results, the failures recorded, the mark_complete calls, and the lines
\* written to stderr.
worker_run(config, t, scr, os, refuse) ==
  LET fr == delete_files_sequential(<<1>>, 1, Escalates(config), scr)
      dr == remove_with_escalation(t, FsInit(t), 1, Escalates(config),
                                   os[1], os[2], os[3], refuse)
  IN [files |-> fr, dir |-> dr, marks |-> MarkCompleteCalls(dr.path),
      failures |-> fr.first \o fr.later \o dr.fails,
      stderr |-> Warnings(config, fr.first \o fr.later \o dr.fails)]

CallWorker ==
  /\ call = NoCall
  /\ \E config \in WorkerConfigs, t \in CallTrees :
       \E scr \in [1 .. 1 -> ScriptsOver({ERROR_SUCCESS, ERROR_ACCESS_DENIED,
                                          HardErrorCode},
                                         config.kill_processes)],
          os \in DirAnswers(config.kill_processes),
          refuse \in {{}, LeftUnder(t, FsInit(t), 1)} :
         call' = [op |-> "worker", config |-> config, t |-> t, scr |-> scr,
                  os |-> os, refuse |-> refuse,
                  out |-> worker_run(config, t, scr, os, refuse)]
  /\ PoolUnchanged /\ UNCHANGED scan

\* ------------------------------------------------------------ process kill
\* Process ids: the two the kill loops skip, and two ordinary processes,
\* either of which may be the one running the deletion.
Pids == {0, 4, 812, 4630}

\* OpenProcess(PROCESS_TERMINATE | PROCESS_QUERY_INFORMATION, false, pid):
\* Windows opens neither the System Idle Process (0) nor the System process
\* (4) for user-level code; of the others it opens those in `grant`.
OpenProcess(pid, grant) == pid \notin {0, 4} /\ pid \in grant

\* kill_process(pid): OpenProcess, then TerminateProcess(handle, 1).
\* [ok, terminated].
kill_process(pid, grant) ==
  IF OpenProcess(pid, grant)
  THEN [ok |-> TRUE, terminated |-> {pid}]
  ELSE [ok |-> FALSE, terminated |-> {}]

\* Variant: only PID 0 is skipped.
IsSystemPid_OnlyIdle(pid) == pid = 0

\* The test of the kill loops: proc.pid == 0 || proc.pid == 4.
IsSystemPid(pid) == pid = 0 \/ pid = 4

\* The loop of kill_locking_processes and kill_locking_processes_batch over
\* the processes the lock lookup returned, from the k-th on; `self` is the
\* process running the loop, which runs no further once it is terminated.
\* [asked, killed, terminated, slept]: the pids handed to kill_process, the
\* processes pushed to `killed`, the processes that are no more, the sleeps.
RECURSIVE KillLoop(_, _, _, _, _)
KillLoop(processes, k, self, grant, acc) ==
  IF k > Len(processes)
  THEN [acc EXCEPT !.slept = IF acc.killed # << >> THEN <<50>> ELSE << >>]
  ELSE IF IsSystemPid(processes[k])
  THEN KillLoop(processes, k + 1, self, grant, acc)
  ELSE LET r == kill_process(processes[k], grant)
           a == [acc EXCEPT
                   !.asked = Append(@, processes[k]),
                   !.killed = IF r.ok THEN Append(@, processes[k]) ELSE @,
                   !.terminated = @ \cup r.terminated]
       IN IF self \in r.terminated THEN a
          ELSE KillLoop(processes, k + 1, self, grant, a)

\* kill_locking_processes(path), `processes` what find_locking_processes
\* returned.
kill_locking_processes(processes, self, grant) ==
  KillLoop(processes, 1, self, grant,
           [asked |-> << >>, killed |-> << >>, terminated |-> {},
            slept |-> << >>])

\* kill_locking_processes_batch(paths), `processes` what
\* find_locking_processes_batch returned.
kill_locking_processes_batch(processes, self, grant) ==
  KillLoop(processes, 1, self, grant,
           [asked |-> << >>, killed |-> << >>, terminated |-> {},
            slept |-> << >>])

\* What the lock lookup may report: up to two processes.
LockLookups ==
  { << >> } \cup { <<p>> : p \in Pids }
    \cup { x \in { <<p, q>> : p \in Pids, q \in Pids } : x[1] # x[2] }

CallKillProcess ==
  /\ call = NoCall
  /\ \E self \in Pids \ {0, 4}, pid \in Pids, grant \in SUBSET Pids :
       call' = [op |-> "kill_process", self |-> self, pid |-> pid,
                grant |-> grant, out |-> kill_process(pid, grant)]
  /\ PoolUnchanged /\ UNCHANGED scan

CallKillLocking ==
  /\ call = NoCall
  /\ \E self \in Pids \ {0, 4}, processes \in LockLookups,
        grant \in SUBSET Pids :
       call' = [op |-> "kill_locking_processes", self |-> self,
                processes |-> processes, grant |-> grant,
                out |-> kill_locking_processes(processes, self, grant)]
  /\ PoolUnchanged /\ UNCHANGED scan

CallKillBatch ==
  /\ call = NoCall
  /\ \E self \in Pids \ {0, 4}, processes \in LockLookups,
        grant \in SUBSET Pids :
       call' = [op |-> "kill_locking_processes_batch", self |-> self,
                processes |-> processes, grant |-> grant,
                out |-> kill_locking_processes_batch(processes, self, grant)]
  /\ PoolUnchanged /\ UNCHANGED scan

\* ------------------------------------------------------------ force-close
\* String::to_lowercase on the paths used here.
to_lowercase(p) ==
  CASE p = "C:/T/F" -> "c:/t/f"
    [] p = "C:/T/G" -> "c:/t/g"
    [] p = "C:/T/H" -> "c:/t/h"
    [] OTHER -> p

\* std::fs::canonicalize(p).ok(): the absolute path in the case the volume
\* stores, nothing for a path that does not exist.
canonicalize(p) ==
  CASE p = "c:/t/f" -> << "C:/T/F" >>
    [] p = "C:/T/F" -> << "C:/T/F" >>
    [] p = "t/g" -> << "C:/T/G" >>
    [] OTHER -> << >>

\* normalized_targets, as a set.
normalized_targets(paths) ==
  { to_lowercase(canonicalize(paths[i])[1]) :
      i \in { j \in 1 .. Len(paths) : canonicalize(paths[j]) # << >> } }

\* Variant: the entries of the current process are not skipped.
SkipEntry_NotSelf(entry, current_pid) ==
  \/ entry.unique_process_id = 0
  \/ entry.unique_process_id = 4
  \/ entry.granted_access = 0

\* The first test of the loop over the handle table.
SkipEntry(entry, current_pid) ==
  \/ entry.unique_process_id = current_pid
  \/ entry.unique_process_id = 0
  \/ entry.unique_process_id = 4
  \/ entry.granted_access = 0

\* resolve_handle_path_with_timeout(dup_handle): the final path, or nothing
\* when the watchdog fires or GetFinalPathNameByHandleW returns no path, as
\* it does for every object that is not a file.
resolve_handle_path_with_timeout(entry) ==
  IF entry.object_type = "File" /\ entry.os \notin {"timeout", "no_path"}
  THEN << entry.path >>
  ELSE << >>

\* The loop of force_close_file_handles over the handle table from entry k
\* on.  acc = [count, closed]: handles_closed and the entries whose handle
\* was closed in its process.  entry.os tells what the OS does with the
\* entry: "dup_fails" the first DuplicateHandle fails, "close_fails" the one
\* with DUPLICATE_CLOSE_SOURCE fails; `openable` are the processes
\* OpenProcess(PROCESS_DUP_HANDLE) opens.
RECURSIVE ForceCloseLoop(_, _, _, _, _, _, _)
ForceCloseLoop(entries, k, targets, file_idx, current_pid, openable, acc) ==
  IF k > Len(entries) THEN acc
  ELSE
    LET entry == entries[k]
        p == resolve_handle_path_with_timeout(entry)
        is_match == p # << >> /\ to_lowercase(p[1]) \in targets
        next == IF \/ SkipEntry(entry, current_pid)
                   \/ (file_idx # "None"
                         /\ entry.object_type # file_idx)
                   \/ entry.unique_process_id \notin openable
                   \/ entry.os = "dup_fails"
                   \/ ~is_match
                   \/ entry.os = "close_fails"
                THEN acc
                ELSE [count |-> acc.count + 1, closed |-> acc.closed \cup {k}]
    IN ForceCloseLoop(entries, k + 1, targets, file_idx, current_pid,
                      openable, next)

\* force_close_file_handles(paths): `self` is std::process::id(), `entries`
\* the system handle table, file_type_index what
\* detect_file_object_type_index returned.
force_close_file_handles(paths, entries, self, file_type_index, openable) ==
  IF paths = << >> \/ normalized_targets(paths) = {}
  THEN [count |-> 0, closed |-> {}]
  ELSE ForceCloseLoop(entries, 1, normalized_targets(paths), file_type_index,
                      self % 65536, openable, [count |-> 0, closed |-> {}])

\* The entries of the handle table: a file handle of process 4630 on
\* C:\T\F that can be closed, and what differs from it in one field.
HandleEntries ==
  LET base == [unique_process_id |-> 4630, object_type |-> "File",
               granted_access |-> 1, path |-> "C:/T/F", os |-> "ok"]
  IN {base}
     \cup { [base EXCEPT !.unique_process_id = q] : q \in {0, 4, 812} }
     \cup { [base EXCEPT !.object_type = "Key"],
            [base EXCEPT !.granted_access = 0] }
     \cup { [base EXCEPT !.path = q] : q \in {"C:/T/G", "C:/T/H"} }
     \cup { [base EXCEPT !.os = q] :
              q \in {"timeout", "no_path", "dup_fails", "close_fails"} }

HandleTables ==
  { << >> } \cup { <<e>> : e \in HandleEntries }
    \cup (HandleEntries \X HandleEntries)

CallForceClose ==
  /\ call = NoCall
  /\ \E paths \in { << >>, << "c:/t/f" >>, << "C:/T/F", "t/g" >>,
                    << "c:/t/x" >> },
        entries \in HandleTables,
        self \in {812, 4630, 66348},
        file_type_index \in {"None", "File"},
        openable \in SUBSET {812, 4630} :
       call' = [op |-> "force_close_file_handles", paths |-> paths,
                entries |-> entries, self |-> self,
                file_type_index |-> file_type_index,
                openable |-> openable,
                out |-> force_close_file_handles(paths, entries, self,
                          file_type_index, openable)]
  /\ PoolUnchanged /\ UNCHANGED scan

\* ------------------------------------------------------------ path_to_wide
\* A path is a sequence of characters; these are the characters of the
\* paths looked at, with their UTF-16 code units.
PathChars == {"C", ":", "/", "\\", "?"}

CodeUnit(ch) ==
  IF ch = "C" THEN 67
  ELSE IF ch = ":" THEN 58
  ELSE IF ch = "/" THEN 47
  ELSE IF ch = "\\" THEN 92
  ELSE 63

\* str::encode_utf16 on characters of the Basic Latin block.
encode_utf16(s) == [i \in 1 .. Len(s) |-> CodeUnit(s[i])]

\* r"\\?\"
LongPrefix == << "\\", "\\", "?", "\\" >>

starts_with(s, pre) == Len(s) >= Len(pre) /\ SubSeq(s, 1, Len(pre)) = pre

\* Variant: forward slashes are kept.
Normalized_Kept(path_str) == path_str

\* path_str.replace('/', "\\")
Normalized(path_str) ==
  [i \in 1 .. Len(path_str) |->
     IF path_str[i] = "/" THEN "\\" ELSE path_str[i]]

\* path_to_wide's is_absolute, on the normalized string.
is_absolute(normalized) ==
  \/ starts_with(normalized, LongPrefix)
  \/ /\ Len(normalized) >= 3
     /\ normalized[2] = ":"
     /\ normalized[3] = "\\"

path_to_wide(path) ==
  LET normalized == Normalized(path)
      prefixed == IF is_absolute(normalized)
                     /\ ~starts_with(normalized, LongPrefix)
                  THEN LongPrefix \o normalized
                  ELSE normalized
  IN encode_utf16(prefixed) \o << 0 >>

ShortPaths == UNION { [1 .. n -> PathChars] : n \in 0 .. MaxPathLen }

\* The paths path_to_wide is called on: every string of up to MaxPathLen
\* characters, and every such string behind the long-path prefix.
Paths == ShortPaths \cup { LongPrefix \o s : s \in ShortPaths }

CallPathToWide ==
  /\ call = NoCall
  /\ \E path \in Paths :
       call' = [op |-> "path_to_wide", path |-> path,
                out |-> path_to_wide(path)]
  /\ PoolUnchanged /\ UNCHANGED scan

CallNext ==
  \/ CallDeleteFile
  \/ CallRemoveDir
  \/ CallForceClose
  \/ CallDeleteFiles
  \/ CallDeleteFilesFromList
  \/ CallProcessDir
  \/ CallKillProcess
  \/ CallKillLocking
  \/ CallKillBatch
  \/ CallWorker
  \/ CallPathToWide

CallSpec == CallInit /\ [][CallNext]_vars

\* ------------------------------------------------------------ disk
\* What lies on disk under the root before the scan: directories 1..n, root
\* 1, parent[c] < c; `link` the directory entries that are reparse points
\* (junctions, directory symlinks: what lies on disk under such an entry is
\* its target's content); files[d] regular files in d; `lfiles` the
\* directories that hold one file symlink; `bad` the directories whose
\* enumeration fails; `cpus` the cores of the machine.
FileId(d, i) == 10 * d + i
LinkFileId(d) == 10 * d + 9
\* FileEntry.size of a regular file of d.
EntrySize(d) == d

ScanParents(n) ==
  { p \in [2 .. n -> 1 .. n] : \A c \in 2 .. n : p[c] < c }

DisksOf(n) ==
  { [n |-> n, parent |-> p, link |-> l, files |-> f, lfiles |-> lf,
     bad |-> b, cpus |-> c] :
      p \in ScanParents(n),
      l \in { s \in SUBSET (2 .. n) : Cardinality(s) <= MaxScanLinks },
      f \in { g \in [1 .. n -> 0 .. MaxScanFiles] :
                Cardinality({ d \in 1 .. n : g[d] > 0 }) <= MaxScanBusy },
      lf \in { s \in SUBSET (1 .. n) : Cardinality(s) <= MaxScanLinks },
      b \in { s \in SUBSET (1 .. n) : Cardinality(s) <= MaxScanBad },
      c \in {CpuCount, 2 * CpuCount} }

Disks == UNION { DisksOf(n) : n \in 1 .. MaxScanDirs }

\* enumerate_files(dir): one FileEntry per entry of dir, subdirectories
\* first.  A reparse point carries FILE_ATTRIBUTE_REPARSE_POINT, a directory
\* FILE_ATTRIBUTE_DIRECTORY; the size of a directory is 0.
DirEntries(disk, d) ==
  [ i \in 1 .. Len(Sorted(Children(disk, d))) |->
      [path |-> Sorted(Children(disk, d))[i], is_dir |-> TRUE,
       is_symlink |-> Sorted(Children(disk, d))[i] \in disk.link,
       size |-> 0] ]

FileEntries(disk, d) ==
  [ i \in 1 .. disk.files[d] |->
      [path |-> FileId(d, i), is_dir |-> FALSE, is_symlink |-> FALSE,
       size |-> EntrySize(d)] ]
  \o (IF d \in disk.lfiles
      THEN << [path |-> LinkFileId(d), is_dir |-> FALSE,
               is_symlink |-> TRUE, size |-> 0] >>
      ELSE << >>)

enumerate_files(disk, d) == DirEntries(disk, d) \o FileEntries(disk, d)

\* ------------------------------------------------------------ scan_parallel
\* The locals of one scan_parallel call.
NoLocals ==
  [child_dirs |-> << >>, symlink_dirs |-> << >>, files |-> << >>,
   local_bytes |-> 0]

\* Variant: a reparse-point directory is treated as a plain subdirectory.
Callback_FollowLinks(loc, entry) ==
  IF entry.is_dir
  THEN [loc EXCEPT !.child_dirs = Append(@, entry.path)]
  ELSE IF entry.is_symlink
  THEN [loc EXCEPT !.files = Append(@, entry.path)]
  ELSE [loc EXCEPT !.files = Append(@, entry.path),
                   !.local_bytes = @ + entry.size]

\* The closure handed to enumerate_files, on one entry.
Callback(loc, entry) ==
  IF entry.is_symlink
  THEN IF entry.is_dir
       THEN [loc EXCEPT !.symlink_dirs = Append(@, entry.path)]
       ELSE [loc EXCEPT !.files = Append(@, entry.path)]
  ELSE IF entry.is_dir
  THEN [loc EXCEPT !.child_dirs = Append(@, entry.path)]
  ELSE [loc EXCEPT !.files = Append(@, entry.path),
                   !.local_bytes = @ + entry.size]

RECURSIVE Enumerated(_, _, _)
Enumerated(entries, k, loc) ==
  IF k > Len(entries) THEN loc
  ELSE Enumerated(entries, k + 1, Callback(loc, entries[k]))

\* cpu_count() >= 8 => 2, else 3
scan_threshold(cpus) == IF cpus >= 8 THEN 2 ELSE 3

ScanDirs == 1 .. scan.disk.n

\* A step of the scan leaves the pool and the single calls alone.
ScanUnchanged == PoolUnchanged /\ UNCHANGED call

\* The state at the call scan_parallel(root, ...) of discover_tree.
ScanStart(disk) ==
  [op |-> "scan", disk |-> disk,
   all_dirs |-> {}, children_map |-> << >>, dir_files_map |-> << >>,
   file_count |-> 0, total_bytes |-> 0,
   pc |-> [d \in 1 .. disk.n |-> IF d = 1 THEN "insert" ELSE "idle"],
   loc |-> [d \in 1 .. disk.n |-> NoLocals],
   failed |-> {},
   result |-> [ok |-> FALSE]]

\* all_dirs.insert(dir.to_path_buf())
ScanInsert(d) ==
  /\ scan.op = "scan" /\ scan.pc[d] = "insert"
  /\ scan' = [scan EXCEPT !.all_dirs = @ \cup {d}, !.pc[d] = "enum"]
  /\ ScanUnchanged

\* Variant: the directory whose enumeration failed is dropped from the set.
EnumFailed_Dropped(d) ==
  [scan EXCEPT !.failed = @ \cup {d}, !.pc[d] = "done",
               !.all_dirs = @ \ {d}]

\* The enumeration failed: a warning, and the call returns.
EnumFailed(d) ==
  [scan EXCEPT !.failed = @ \cup {d}, !.pc[d] = "done"]

\* enumerate_files(dir, callback), and the early return on its error.
ScanEnumerate(d) ==
  /\ scan.op = "scan" /\ scan.pc[d] = "enum"
  /\ scan' = IF d \in scan.disk.bad
             THEN EnumFailed(d)
             ELSE [scan EXCEPT
                     !.loc[d] = Enumerated(enumerate_files(scan.disk, d), 1,
                                           NoLocals),
                     !.pc[d] = "record"]
  /\ ScanUnchanged

\* Variant: the symlink directories are not registered.
Registered_None(dirs, loc) == dirs

\* for symlink_dir in &symlink_dirs { all_dirs.insert(symlink_dir.clone()) }
Registered(dirs, loc) == dirs \cup SeqToSet(loc.symlink_dirs)

\* Variant: the list and the count are recorded for an empty list as well.
ListsFiles_Always(loc) == TRUE

\* if !files.is_empty(): the list goes into dir_files_map and its length is
\* added to file_count.
ListsFiles(loc) == loc.files # << >>

\* The shared maps and counters after lines 135-158 of one call.
Recorded(s, d, loc) ==
  [s EXCEPT
     !.all_dirs = Registered(@, loc),
     !.dir_files_map = IF ListsFiles(loc) THEN d :> loc.files @@ @ ELSE @,
     !.file_count = IF ListsFiles(loc) THEN @ + Len(loc.files) ELSE @,
     !.total_bytes = IF loc.local_bytes > 0 THEN @ + loc.local_bytes ELSE @,
     !.children_map = IF loc.child_dirs \o loc.symlink_dirs # << >>
                      THEN d :> (loc.child_dirs \o loc.symlink_dirs) @@ @
                      ELSE @,
     !.pc[d] = "recurse"]

ScanRecord(d) ==
  /\ scan.op = "scan" /\ scan.pc[d] = "record"
  /\ scan' = Recorded(scan, d, scan.loc[d])
  /\ ScanUnchanged

Parallel(d) ==
  Len(scan.loc[d].child_dirs) >= scan_threshold(scan.disk.cpus)

\* Variant: the last subdirectory is not scanned.
ToScan_ButLast(child_dirs) ==
  IF child_dirs = << >> THEN << >>
  ELSE SubSeq(child_dirs, 1, Len(child_dirs) - 1)

\* The subdirectories scan_parallel is called on.
ToScan(child_dirs) == child_dirs

\* child_dirs.par_iter().for_each(|child| scan_parallel(child, ...)):
\* every call is under way, in any interleaving.
ScanFork(d) ==
  /\ scan.op = "scan" /\ scan.pc[d] = "recurse"
  /\ Parallel(d)
  /\ scan' = [scan EXCEPT
                !.pc = [x \in ScanDirs |->
                          IF x \in SeqToSet(ToScan(scan.loc[d].child_dirs))
                          THEN "insert"
                          ELSE IF x = d THEN "join" ELSE @[x]]]
  /\ ScanUnchanged

\* for child in child_dirs { scan_parallel(&child, ...) }: the next call,
\* once the one before it has returned.
ScanCall(d) ==
  /\ scan.op = "scan" /\ scan.pc[d] = "recurse"
  /\ ~Parallel(d)
  /\ \E k \in 1 .. Len(ToScan(scan.loc[d].child_dirs)) :
       /\ scan.pc[scan.loc[d].child_dirs[k]] = "idle"
       /\ \A j \in 1 .. k - 1 : scan.pc[scan.loc[d].child_dirs[j]] = "done"
       /\ scan' = [scan EXCEPT !.pc[scan.loc[d].child_dirs[k]] = "insert"]
  /\ ScanUnchanged

\* Every call on a subdirectory has returned: this call returns.
ScanReturn(d) ==
  /\ scan.op = "scan" /\ scan.pc[d] \in {"recurse", "join"}
  /\ scan.pc[d] = "recurse" => ~Parallel(d)
  /\ \A k \in 1 .. Len(ToScan(scan.loc[d].child_dirs)) :
       scan.pc[scan.loc[d].child_dirs[k]] = "done"
  /\ scan' = [scan EXCEPT !.pc[d] = "done"]
  /\ ScanUnchanged

\* ------------------------------------------------------------ discover_tree
\* Lines 76-92: the DirectoryTree built from the maps once
\* scan_parallel(root) has returned.
DirectoryTree(s) ==
  [ok |-> TRUE,
   dirs |-> s.all_dirs,
   children |-> s.children_map,
   dir_files |-> s.dir_files_map,
   leaves |-> { d \in s.all_dirs : d \notin DOMAIN s.children_map },
   file_count |-> s.file_count,
   total_bytes |-> s.total_bytes]

Collect ==
  /\ scan.op = "scan" /\ scan.pc[1] = "done"
  /\ scan' = [scan EXCEPT !.result = DirectoryTree(scan), !.pc[1] = "returned"]
  /\ ScanUnchanged

ScanInit ==
  /\ tree = CallTree /\ kill_processes = FALSE /\ worker_count = 1
  /\ PoolInit
  /\ call = NoCall
  /\ outcome = NoOutcome
  /\ scan \in { ScanStart(disk) : disk \in Disks }

ScanNext ==
  \/ \E d \in ScanDirs : ScanInsert(d)
  \/ \E d \in ScanDirs : ScanEnumerate(d)
  \/ \E d \in ScanDirs : ScanRecord(d)
  \/ \E d \in ScanDirs : ScanFork(d)
  \/ \E d \in ScanDirs : ScanCall(d)
  \/ \E d \in ScanDirs : ScanReturn(d)
  \/ Collect

ScanSpec == ScanInit /\ [][ScanNext]_vars

\* ------------------------------------------------------------ observations
\* How often mark_complete(d) has been called.
MarkCount(d) == Cardinality({ i \in 1 .. Len(hist.mc) : hist.mc[i] = d })

\* The workers inside process_directory(d) that have not yet called
\* mark_complete.
BeforeMark(d) ==
  { w \in Workers : /\ cur[w].type = "ProcessDir" /\ cur[w].dir = d
                    /\ pc[w] \in {"pd_files", "pd_remove", "mc_fetch_add"} }

\* Every file the scanner listed for d lies in a list whose delete pass
\* has ended.
AllFilesAttempted(d) ==
  \A i \in 1 .. tree.files[d] : \E iv \in hist.attempted[d] : i \in IvSet(iv)

\* ------------------------------------------------------------ claims
\* C1: mark_complete(d) is never called before mark_complete has been called
\* for every child directory of d (junction children included).
C1_ChildrenBeforeParent ==
  \A i \in 1 .. Len(hist.mc) :
    \A c \in Children(tree, hist.mc[i]) :
      \E j \in 1 .. (i - 1) : hist.mc[j] = c

\* C1 witness: two workers completed a three-directory tree that holds a
\* junction.
C1_Witness ==
  /\ Len(hist.mc) = 3 /\ tree.n = 3 /\ tree.link # {} /\ spawned = 2
  /\ Cardinality(Children(tree, 1)) = 2

\* C2: with as many workers as worker_count, whatever the delete calls
\* answer, a fairly scheduled run reaches completed = total_dirs with every
\* worker exited.
C2_Terminates ==
  (spawned = worker_count) => <>(completed = total_dirs /\ AllExited)

\* C2 witness: a run ended although a directory removal failed and was
\* recorded.
C2_Witness ==
  /\ AllExited /\ completed = total_dirs
  /\ \E k \in 1 .. Len(failures) : failures[k].is_dir

\* C3: a directory with N > 1024 files gets exactly ceil(N/256) DeleteFiles
\* items, chunks of 256 (the last possibly shorter) that cover its files
\* once each, and one ProcessDir enqueued only after all of them were marked
\* complete; a directory with N <= 1024 files gets one ProcessDir and no
\* DeleteFiles item.
C3_Batching ==
  \A d \in Dirs(tree) :
    LET N == tree.files[d]
        k == (N + 255) \div 256
        sent == hist.df[d]
    IN /\ hist.pd[d] <= 1
       /\ MarkCount(d) >= 1 => hist.pd[d] = 1
       /\ IF N > 1024
          THEN /\ Len(sent) <= k
               /\ \A i \in 1 .. Len(sent) :
                    /\ sent[i][1] = 256 * (i - 1) + 1
                    /\ sent[i][2] = IF i = k THEN N ELSE 256 * i
               /\ hist.pd[d] = 1 => (Len(sent) = k /\ hist.bd[d] = k)
          ELSE sent = << >>

\* C3 witness: the ProcessDir of a batched directory has been enqueued.
C3_Witness ==
  \E d \in Dirs(tree) :
    tree.files[d] > BATCH_THRESHOLD /\ hist.pd[d] = 1 /\ spawned = 2

\* C4: when a worker is about to call remove_dir(d) for ProcessDir(d), every
\* child directory of d has been marked complete and a delete pass has ended
\* for every file the scanner listed for d.
C4_RemoveAfterContents ==
  \A w \in Workers :
    pc[w] = "pd_remove" =>
      /\ \A c \in Children(tree, cur[w].dir) : MarkCount(c) >= 1
      /\ AllFilesAttempted(cur[w].dir)

\* C4 witness: remove_dir is about to be called on a batched directory that
\* has a child directory.
C4_Witness ==
  \E w \in Workers :
    /\ pc[w] = "pd_remove"
    /\ Children(tree, cur[w].dir) # {}
    /\ tree.files[cur[w].dir] > BATCH_THRESHOLD

\* C5: nothing behind a junction/symlink directory is ever deleted.
C5_TargetsPreserved == fs.behind = tree.link

\* C6: with kill_processes off, no process is killed and no handle closed.
C6_NoEscalationByDefault == ~kill_processes => hist.esc = {}

\* C6 witness: with kill_processes off, an in-use failure was recorded.
C6_Witness ==
  /\ ~kill_processes
  /\ \E k \in 1 .. Len(failures) : is_file_in_use_error(failures[k].error)

\* C7: every ProcessDir(d) received is answered by exactly one
\* mark_complete(d), so each directory is marked once and completed never
\* exceeds total_dirs.
C7_MarkedExactlyOnce ==
  /\ \A d \in Dirs(tree) :
       /\ MarkCount(d) <= 1
       /\ MarkCount(d) + Cardinality(BeforeMark(d)) = hist.pdRecv[d]
       /\ AllExited => MarkCount(d) = 1
  /\ completed <= total_dirs

\* C7 witness: a run ended in which a directory went through the kill and
\* force-close escalation.
C7_Witness ==
  /\ AllExited
  /\ \E e \in hist.esc : e.op = "force_close_file_handles" /\ e.paths = {0}

\* C8: exactly worker_count Shutdown items are enqueued, all by the
\* mark_complete call that raised completed to total_dirs, none below it.
C8_ShutdownOncePerWorker ==
  /\ hist.sd <= worker_count
  /\ completed < total_dirs => hist.sd = 0
  /\ (hist.sd > 0 /\ hist.sd < worker_count) =>
       \E w \in Workers :
         /\ pc[w] = "sending"
         /\ cur[w].dir = hist.mc[total_dirs]
         /\ tosend[w] = [i \in 1 .. (worker_count - hist.sd) |-> Shutdown]
  /\ AllExited => hist.sd = worker_count

\* C8 witness: two Shutdown items were enqueued for two workers.
C8_Witness == hist.sd = 2 /\ worker_count = 2 /\ tree.n = 3

\* C9: if every delete call succeeded, then once all workers have exited
\* every file and directory of the tree is deleted and no failure recorded.
C9_AllDeleted ==
  (AllExited /\ ~hist.anyErr) =>
    /\ fs.gone = Dirs(tree)
    /\ \A d \in Dirs(tree) : fs.present[d] = {}
    /\ failures = << >>

\* C9 witness: a clean run over a tree with a batched directory ended.
C9_Witness ==
  /\ AllExited /\ ~hist.anyErr /\ tree.n = 2
  /\ \E d \in Dirs(tree) : tree.files[d] > BATCH_THRESHOLD

\* C10: completed never decreases, and equals total_dirs once all workers
\* have exited.
C10_CompletedMonotone ==
  /\ [][completed' >= completed]_vars
  /\ [](AllExited => completed = total_dirs)

\* C10 witness: all workers exited with completed = 3.
C10_Witness == AllExited /\ completed = 3 /\ spawned = 2

\* C11: done goes from false to true at most once, only in a state where
\* completed = total_dirs, never back, and is never true while
\* completed < total_dirs.
C11_DoneSetOnce ==
  /\ [][done' # done => (~done /\ done' /\ completed = total_dirs)]_vars
  /\ [](done => completed = total_dirs)

\* C11 witness: done is set after three directories were marked complete by
\* two workers.
C11_Witness == done /\ Len(hist.mc) = 3 /\ spawned = 2

\* C12: a not-found answer of delete_file or remove_dir, at the first call or
\* at a retry after the process kill or the force-close, ends the handling
\* of that path with no FailedItem for it, and process_directory still calls
\* mark_complete once.
NotFoundCodes == {ERROR_FILE_NOT_FOUND, ERROR_PATH_NOT_FOUND}

C12_NotFoundIsDeleted ==
  /\ call.op = "delete_files_sequential" =>
       LET fails == call.out.first \o call.out.later
       IN \A x \in call.out.seen :
            x[3] \in NotFoundCodes =>
              /\ \A k \in 1 .. Len(fails) : fails[k].path # <<1, x[1]>>
              /\ call.out.calls[x[1]] = x[2]
  /\ call.op = "process_directory" =>
       ((\E k \in 1 .. Len(call.out.codes) :
            call.out.codes[k] \in NotFoundCodes)
          => /\ call.out.fails = << >>
             /\ MarkCompleteCalls(call.out.path) = 1)

\* C12 witness: a file answered not-found at the retry after the
\* force-close, next to a file whose hard error was recorded.
C12_Witness ==
  /\ call.op = "delete_files_sequential"
  /\ call.kill
  /\ DOMAIN call.scr = 1 .. 2
  /\ call.scr[1] = <<ERROR_SHARING_VIOLATION, ERROR_ACCESS_DENIED,
                     ERROR_PATH_NOT_FOUND>>
  /\ call.scr[2] = <<HardErrorCode, 0, 0>>
  /\ call.out.first \o call.out.later = << FailedFile(1, 2, HardErrorCode) >>

\* C13: with kill_processes off, a file whose delete_file call returned an
\* in-use error (access-denied, sharing-violation, lock-violation) has a
\* FailedItem with is_dir = false and that error in the tracker, and the run
\* goes on to its end: every worker exits.
InUseFailures ==
  { x \in hist.first : is_file_in_use_error(x[3]) }

C13_InUseRecorded ==
  /\ [](~kill_processes =>
         \A x \in InUseFailures :
           \E k \in 1 .. Len(failures) :
             failures[k] = [path |-> <<x[1], x[2]>>, error |-> x[3],
                            is_dir |-> FALSE])
  /\ ((~kill_processes /\ InUseFailures # {})
        ~> (AllExited /\ completed = total_dirs))

\* C13 witness: with kill_processes off a run ended after a lock-violation
\* on a file of a batched directory.
C13_Witness ==
  /\ ~kill_processes /\ AllExited
  /\ \E x \in InUseFailures :
       x[3] = ERROR_LOCK_VIOLATION /\ tree.files[x[1]] > BATCH_THRESHOLD

\* C14: a delete_file or remove_dir call that fails with a hard error (not
\* not-found, not in-use, not dir-not-empty), invalid-name for one, leaves a
\* FailedItem with that error for its path.
HardCodes ==
  { c \in CallFileCodes \cup {ERROR_DIR_NOT_EMPTY} :
      /\ c # ERROR_SUCCESS
      /\ c \notin NotFoundCodes
      /\ ~is_file_in_use_error(c)
      /\ ~is_dir_not_empty_error(c) }

C14_HardErrorRecorded ==
  /\ call.op = "delete_files_sequential" =>
       LET fails == call.out.first \o call.out.later
       IN \A x \in call.out.seen :
            x[3] \in HardCodes =>
              \E k \in 1 .. Len(fails) :
                fails[k] = FailedFile(1, x[1], x[3])
  /\ call.op = "process_directory" =>
       (call.out.codes[1] \in HardCodes
          => call.out.fails = << FailedDir(1, call.out.codes[1]) >>)

\* C15: the process-kill stage never terminates the process that runs the
\* deletion, whatever the lock lookup reports.
C15_SelfNeverKilled ==
  call.op \in {"kill_locking_processes", "kill_locking_processes_batch"} =>
    call.self \notin call.out.terminated

RetryableCodes ==
  {ERROR_SHARING_VIOLATION, ERROR_LOCK_VIOLATION, ERROR_ACCESS_DENIED,
   ERROR_DIR_NOT_EMPTY}

StandardLog == SubSeq(call.out.log, 1, Min(Len(call.out.log), 4))

C18_StandardRetryLoop ==
  call.op \in {"delete_file", "remove_dir"} =>
    /\ Len(StandardLog) \in 1 .. 4
    /\ \A k \in 1 .. (Len(StandardLog) - 1) : StandardLog[k] \in RetryableCodes
    /\ Len(StandardLog) < 4 =>
         /\ StandardLog[Len(StandardLog)] \notin RetryableCodes
         /\ call.out.log = StandardLog
         /\ call.out.code = StandardLog[Len(StandardLog)]
    /\ Len(call.out.log) = 4 => call.out.code = call.out.log[4]
    /\ Len(call.out.log) > 4 => call.out.log[4] \in RetryableCodes
    /\ call.op = "delete_file" =>
         /\ Len(call.out.log) <= 4
         /\ call.out.attempts = Len(call.out.log)
         /\ \A k \in 1 .. Len(call.out.log) :
              call.out.log[k] = call.answers[k]

\* C18 witness: delete_file met four retryable failures of four kinds and
\* returned the last.
C18_Witness ==
  /\ call.op = "delete_file"
  /\ call.answers = <<ERROR_SHARING_VIOLATION, ERROR_DIR_NOT_EMPTY,
                      ERROR_ACCESS_DENIED, ERROR_LOCK_VIOLATION>>
  /\ call.out.log = call.answers
  /\ call.out.code = ERROR_LOCK_VIOLATION

\* C19: in the standard retry loop of delete_file and remove_dir, the time
\* slept after the k-th failed retryable attempt is the k-th entry of
\* [0, 1, 5, 10] ms, k = 1 .. 4.
SleptAfter(k) ==
  IF \E j \in 1 .. Len(call.out.slept) : call.out.slept[j][1] = k
  THEN call.out.slept[CHOOSE j \in 1 .. Len(call.out.slept) :
                        call.out.slept[j][1] = k][2]
  ELSE 0

C19_RetryDelays ==
  call.op \in {"delete_file", "remove_dir"} =>
    \A k \in 1 .. Len(StandardLog) :
      StandardLog[k] \in RetryableCodes =>
        SleptAfter(k) = <<0, 1, 5, 10>>[k]

\* C20: remove_dir goes into the active cleanup exactly when the 4th
\* standard attempt failed with dir-not-empty; it then makes at most 5
\* passes, each a sleep, a cleanup_remaining_entries and one delete attempt
\* (so at most 9 attempts); the first successful attempt ends the call with
\* Ok, an error that is neither dir-not-empty nor retryable ends it at
\* once, and after the 5th pass the error of that pass is returned.
C20_ActiveCleanup ==
  call.op = "remove_dir" =>
    LET log == call.out.log
        passes == call.out.passes
    IN /\ passes > 0 <=> (Len(log) >= 4 /\ log[4] = ERROR_DIR_NOT_EMPTY)
       /\ passes \in 0 .. 5
       /\ passes > 0 => Len(log) = 4 + passes
       /\ Len(log) <= 9 /\ call.out.attempts = Len(log)
       /\ Len(call.out.cslept) = passes
       /\ \A r \in 1 .. passes :
            call.out.cslept[r] = <<1, 10, 50, 100, 200>>[r]
       /\ \A k \in 1 .. (Len(log) - 1) : log[k] \in RetryableCodes
       /\ call.out.code = log[Len(log)]
       /\ (passes \in 1 .. 4) => log[Len(log)] \notin RetryableCodes
       /\ (passes > 0 /\ call.refuse = {} /\ call.t.link = {}) =>
            \A d \in Dirs(call.t) : call.out.fs.present[d] = {}

\* C20 witness: three access-denied answers and a dir-not-empty one, then
\* two cleanup passes that failed with dir-not-empty and a third after which
\* the directory, which held a file, was removed.
C20_Witness ==
  /\ call.op = "remove_dir"
  /\ call.out.log = <<ERROR_ACCESS_DENIED, ERROR_ACCESS_DENIED,
                      ERROR_ACCESS_DENIED, ERROR_DIR_NOT_EMPTY,
                      ERROR_DIR_NOT_EMPTY, ERROR_DIR_NOT_EMPTY,
                      ERROR_SUCCESS>>
  /\ call.out.passes = 3
  /\ call.out.cslept = <<1, 10, 50>>
  /\ call.out.code = ERROR_SUCCESS
  /\ call.t.files[1] = 1
  /\ call.out.fs.present[1] = {}

\* The tree discover_tree has returned, if it has.
Returned == scan.op = "scan" /\ scan.result.ok

\* C21: in every tree discover_tree returns, every path of every children
\* list is in dirs, leaves is exactly dirs minus the keys of children, and
\* every key of dir_files is in dirs.
C21_TreeConsistent ==
  Returned =>
    /\ \A d \in DOMAIN scan.result.children :
         SeqToSet(scan.result.children[d]) \subseteq scan.result.dirs
    /\ scan.result.leaves = scan.result.dirs \ DOMAIN scan.result.children
    /\ DOMAIN scan.result.dir_files \subseteq scan.result.dirs

C21_Witness ==
  /\ Returned
  /\ \E d \in DOMAIN scan.result.children :
       SeqToSet(scan.result.children[d]) \cap scan.disk.link # {}
  /\ DOMAIN scan.result.dir_files # {}
  /\ scan.result.leaves # {}
  /\ Cardinality(scan.result.dirs) = MaxScanDirs

\* The entries of the disk the scan comes across: the root, and every entry
\* of a directory that is come across, is no reparse point and enumerates.
RECURSIVE Encountered(_, _)
Encountered(disk, d) ==
  \/ d = 1
  \/ /\ Encountered(disk, disk.parent[d])
     /\ disk.parent[d] \notin disk.link
     /\ disk.parent[d] \notin disk.bad

\* The directories whose entries the scan lists.
Listed(disk) ==
  { d \in 1 .. disk.n : Encountered(disk, d) /\ d \notin disk.link
                        /\ d \notin disk.bad }

\* What lies on disk under d, at any depth.
RECURSIVE Under(_, _)
Under(disk, d) ==
  UNION { {c} \cup Under(disk, c) : c \in Children(disk, d) }

\* C22: a junction/symlink directory the scan comes across is in dirs and
\* in its parent's children list, is no key of children (a leaf), and is
\* never scanned: nothing under it reaches dirs, dir_files, file_count or
\* total_bytes.  A file symlink is listed in its directory's dir_files.
C22_LinksNotFollowed ==
  /\ scan.op = "scan" =>
       \A j \in scan.disk.link : \A x \in {j} \cup Under(scan.disk, j) :
         /\ scan.pc[x] = "idle"
         /\ x \notin DOMAIN scan.children_map
         /\ x \notin DOMAIN scan.dir_files_map
         /\ x \in scan.all_dirs => x = j
  /\ Returned =>
       /\ \A j \in scan.disk.link :
            Encountered(scan.disk, j) =>
              /\ j \in scan.result.dirs
              /\ j \in SeqToSet(scan.result.children[scan.disk.parent[j]])
              /\ j \notin DOMAIN scan.result.children
              /\ j \in scan.result.leaves
       /\ scan.result.file_count =
            SumOver([d \in ScanDirs |->
                       scan.disk.files[d]
                       + (IF d \in scan.disk.lfiles THEN 1 ELSE 0)],
                    Listed(scan.disk))
       /\ scan.result.total_bytes =
            SumOver([d \in ScanDirs |-> scan.disk.files[d] * EntrySize(d)],
                    Listed(scan.disk))
       /\ \A d \in Listed(scan.disk) :
            d \in scan.disk.lfiles =>
              /\ d \in DOMAIN scan.result.dir_files
              /\ LinkFileId(d) \in SeqToSet(scan.result.dir_files[d])

\* A junction come across, with a directory holding a file under it, and a
\* file symlink listed next to a regular file.
C22_Witness ==
  /\ Returned
  /\ \E j \in scan.disk.link :
       /\ Encountered(scan.disk, j)
       /\ j \in scan.result.leaves
       /\ \E x \in Under(scan.disk, j) : scan.disk.files[x] > 0
  /\ \E d \in DOMAIN scan.result.dir_files :
       /\ LinkFileId(d) \in SeqToSet(scan.result.dir_files[d])
       /\ FileId(d, 1) \in SeqToSet(scan.result.dir_files[d])

\* The plain directories reached from the root through plain directories.
RECURSIVE Reach(_, _)
Reach(disk, d) ==
  \/ d = 1
  \/ /\ d \notin disk.link
     /\ Reach(disk, disk.parent[d])

\* C23: when every enumeration succeeds, dirs is exactly the root, every
\* directory reachable through non-symlink directories, and every symlink
\* directory that is an immediate entry of one of those, whatever the
\* interleaving of the parallel scan calls.
C23_DirsExact ==
  (Returned /\ scan.disk.bad = {}) =>
    scan.result.dirs =
      { d \in ScanDirs : Reach(scan.disk, d) }
      \cup { j \in scan.disk.link : Reach(scan.disk, scan.disk.parent[j]) }

\* A scan whose root call ran its subdirectories in parallel, with a
\* junction inside one of them.
C23_Witness ==
  /\ Returned /\ scan.disk.bad = {}
  /\ Parallel(1)
  /\ \E j \in scan.disk.link : scan.disk.parent[j] # 1
  /\ Cardinality(scan.result.dirs) = MaxScanDirs

\* The directories whose enumeration the scan saw fail.
FailedDirs(disk) ==
  { d \in disk.bad : Encountered(disk, d) /\ d \notin disk.link }

\* C24: an enumeration error in one directory never aborts discover_tree:
\* that directory stays in dirs as a leaf with no files and no children,
\* nothing under it is scanned, every other directory is scanned as if
\* nothing had failed, and the scan goes on until discover_tree returns Ok.
C24_EnumErrorSkipsSubtree ==
  /\ (scan.op = "scan" /\ ~Returned) => ENABLED ScanNext
  /\ Returned =>
       /\ scan.failed = FailedDirs(scan.disk)
       /\ \A b \in FailedDirs(scan.disk) :
            /\ b \in scan.result.dirs
            /\ b \in scan.result.leaves
            /\ b \notin DOMAIN scan.result.children
            /\ b \notin DOMAIN scan.result.dir_files
            /\ Under(scan.disk, b) \cap scan.result.dirs = {}
       /\ scan.result.dirs = { d \in ScanDirs : Encountered(scan.disk, d) }
       /\ \A d \in Listed(scan.disk) :
            /\ Children(scan.disk, d) =
                 (IF d \in DOMAIN scan.result.children
                  THEN SeqToSet(scan.result.children[d]) ELSE {})
            /\ { FileId(d, i) : i \in 1 .. scan.disk.files[d] }
               \cup (IF d \in scan.disk.lfiles THEN {LinkFileId(d)} ELSE {}) =
                 (IF d \in DOMAIN scan.result.dir_files
                  THEN SeqToSet(scan.result.dir_files[d]) ELSE {})

\* A failed directory with a file in it and a directory under it, next to
\* a directory that was listed with its file.
C24_Witness ==
  /\ Returned
  /\ \E b \in scan.failed :
       /\ b # 1
       /\ scan.disk.files[b] > 0
       /\ Under(scan.disk, b) # {}
       /\ b \in scan.result.leaves
       /\ \E d \in DOMAIN scan.result.dir_files :
            d # 1 /\ scan.disk.parent[d] = scan.disk.parent[b]

\* The deletion work units made of the files of d so far: the DeleteFiles
\* chunks enqueued, then the lists take_files(d) has returned.
Units(d) == hist.df[d] \o hist.took[d]

IvDisjoint(a, b) == IvLen(a) = 0 \/ IvLen(b) = 0 \/ a[2] < b[1] \/ b[2] < a[1]

RECURSIVE IvTotal(_)
IvTotal(ivs) == IF ivs = << >> THEN 0 ELSE IvLen(Head(ivs)) + IvTotal(Tail(ivs))

\* C25: no file of a directory is in two deletion work units (two
\* DeleteFiles chunks, a chunk and the list take_files returns, or two such
\* lists): chunks are made only of a directory over the threshold, and then
\* take_files(d) has nothing left to return; take_files(d) returns a list
\* at most once and None from then on.  Once d is complete, every file
\* listed for d is in exactly one unit.
C25_EachFileOneUnit ==
  scan = NoScan /\ call = NoCall =>
    \A d \in Dirs(tree) :
      /\ Len(hist.took[d]) <= 1
      /\ \A k, l \in 1 .. Len(Units(d)) :
           k # l => IvDisjoint(Units(d)[k], Units(d)[l])
      /\ \A k \in 1 .. Len(Units(d)) :
           IvLen(Units(d)[k]) > 0 /\ IvSet(Units(d)[k]) \subseteq 1 .. tree.files[d]
      /\ Units(d) # << >> => d \notin DOMAIN dir_files
      /\ hist.df[d] # << >> =>
           tree.files[d] > BATCH_THRESHOLD /\ hist.took[d] = << >>
      /\ MarkCount(d) >= 1 => IvTotal(Units(d)) = tree.files[d]

\* A directory over the threshold, split in chunks, whose ProcessDir has
\* run (take_files returned None) and is complete.
C25_Witness ==
  \E d \in Dirs(tree) :
    /\ Len(hist.df[d]) = 5 /\ hist.took[d] = << >>
    /\ tree.files[d] = BATCH_THRESHOLD + 1
    /\ MarkCount(d) = 1 /\ spawned = 2

\* C25, second witness state: a small directory whose list was taken.
C25_TakenOnce ==
  \E d \in Dirs(tree) :
    /\ Len(hist.took[d]) = 1 /\ hist.df[d] = << >> /\ MarkCount(d) = 1

\* The children of d whose mark_complete call has been through its
\* decrement of d's counter.
Decremented(d) ==
  { c \in Children(tree, d) :
      /\ MarkCount(c) >= 1
      /\ ~\E w \in Workers : /\ cur[w].type = "ProcessDir" /\ cur[w].dir = c
                             /\ pc[w] \in {"mc_done_load", "mc_fetch_sub"} }

\* C26: child_counts[d] starts at the number of children of d and is, as
\* long as d is in the map, that number minus one per child marked
\* complete; a step never raises it, lowers it by one at most, and never
\* puts back a directory that was removed from the map.
C26_ChildCountsMonotonic ==
  /\ [](\A d \in DOMAIN child_counts :
          /\ d \in Dirs(tree)
          /\ child_counts[d] =
               Cardinality(Children(tree, d)) - Cardinality(Decremented(d)))
  /\ [][\A d \in DOMAIN child_counts' :
          /\ d \in DOMAIN child_counts
          /\ child_counts'[d] <= child_counts[d]
          /\ child_counts[d] - child_counts'[d] <= 1]_vars

\* Two children marked complete, the parent's counter at zero and about to
\* be removed from the map.
C26_Witness ==
  \E d \in DOMAIN child_counts :
    /\ Cardinality(Children(tree, d)) = 2
    /\ child_counts[d] = 0
    /\ Cardinality(Decremented(d)) = 2
    /\ spawned = 2

\* C26, second witness state: the counter was removed, the parent scheduled.
C26_Removed ==
  /\ 1 \notin DOMAIN child_counts /\ tree.n = 3 /\ hist.pd[1] = 1
  /\ Cardinality(Children(tree, 1)) = 2

IsPrefix(s, t) == Len(s) <= Len(t) /\ SubSeq(t, 1, Len(s)) = s

\* C27: the drain returns every FailedItem recorded, each once and in the
\* order recorded, and leaves the tracker empty; it happens only after
\* every worker has ended, so no failure is recorded after it and none is
\* lost before it; and the caller returns PartialFailure exactly when the
\* drained list is not empty.
C27_FailuresDrainedOnce ==
  /\ [][outcome' = NoOutcome => IsPrefix(failures, failures')]_vars
  /\ [][outcome' # outcome =>
          /\ outcome = NoOutcome /\ AllExited
          /\ outcome'.errors = failures /\ failures' = << >>
          /\ (outcome'.op = "Err") = (failures # << >>)
          /\ outcome'.failed = Len(failures)]_vars
  /\ [](outcome # NoOutcome =>
          /\ failures = << >> /\ AllExited
          /\ (outcome.op = "Err") = (outcome.errors # << >>))

\* A run that ended with two failures in the result.
C27_Witness ==
  /\ outcome # NoOutcome /\ outcome.op = "Err" /\ outcome.failed = 2
  /\ spawned = 2

\* C27, second witness state: a run that ended with no failure.
C27_Clean == outcome # NoOutcome /\ outcome.op = "Ok" /\ tree.n = 3

\* The tree t with every file list removed.
Strip(t) == [t EXCEPT !.files = [d \in Dirs(t) |-> 0]]

NoDeleteFiles(items) ==
  \A i \in 1 .. Len(items) : items[i].type # "DeleteFiles"

\* C28: a broker built by new_dirs_only starts in the state Broker::new
\* builds from the same tree without its file lists; it never enqueues a
\* DeleteFiles item and take_files never returns a list; and the run keeps
\* the children-before-parent order, the child counters and the
\* termination of the full broker: it can only stop with every directory
\* marked complete, done set and every worker ended.
C28_DirsOnlyEquivalent ==
  /\ new_dirs_only(tree) = BrokerNew(Strip(tree))
  /\ \A d \in Dirs(tree) : hist.df[d] = << >> /\ hist.took[d] = << >>
  /\ DOMAIN dir_files = {} /\ DOMAIN pending_batches = {}
  /\ NoDeleteFiles(queue)
  /\ \A w \in Workers : cur[w].type # "DeleteFiles" /\ NoDeleteFiles(tosend[w])
  /\ \A i \in 1 .. Len(hist.mc) :
       \A c \in Children(tree, hist.mc[i]) :
         \E j \in 1 .. (i - 1) : hist.mc[j] = c
  /\ \A d \in Dirs(tree) : hist.pd[d] <= 1 /\ MarkCount(d) <= 1
  /\ \A d \in DOMAIN child_counts :
       child_counts[d] =
         Cardinality(Children(tree, d)) - Cardinality(Decremented(d))
  /\ done => completed = total_dirs
  /\ ~(ENABLED Next) =>
       AllExited /\ completed = total_dirs /\ hist.sd = worker_count

\* A run on a tree of three directories, one of them with a file list the
\* broker never saw, that has ended.
C28_Witness ==
  /\ AllExited /\ done /\ tree.n = 3 /\ spawned = 2
  /\ \E d \in Dirs(tree) : tree.files[d] > 0
  /\ new_dirs_only(tree) # BrokerNew(tree)

\* What a worker run does, its output on stderr left aside.
Behaviour(r) ==
  [files |-> r.files, dir |-> r.dir, marks |-> r.marks,
   failures |-> r.failures]

IsLetter(ch) == ch = "C"
IsSeparator(ch) == ch \in {"/", "\\"}
HasChar(p, ch) == \E i \in 1 .. Len(p) : p[i] = ch

\* An absolute drive-letter path written with forward slashes only, hence
\* without the long-path prefix: C:/...
ForwardDrivePath(p) ==
  /\ Len(p) >= 3 /\ IsLetter(p[1]) /\ p[2] = ":" /\ p[3] = "/"
  /\ ~HasChar(p, "\\")

\* The same path written with backslashes.
Backslashed(p) == [i \in 1 .. Len(p) |-> IF p[i] = "/" THEN "\\" ELSE p[i]]

\* A well-formed path that is not absolute: a colon is only found after a
\* leading drive letter (it is reserved in Windows names), and the path
\* neither starts with a drive letter, a colon and a separator nor with
\* the long-path prefix.
RelativePath(p) ==
  /\ \A i \in 1 .. Len(p) : p[i] = ":" => (i = 2 /\ IsLetter(p[1]))
  /\ ~(Len(p) >= 3 /\ IsLetter(p[1]) /\ p[2] = ":" /\ IsSeparator(p[3]))
  /\ ~starts_with(Backslashed(p), LongPrefix)

\* The path a null-terminated buffer holds.
Decoded(wide) ==
  [i \in 1 .. Len(wide) - 1 |->
     CHOOSE ch \in PathChars : CodeUnit(ch) = wide[i]]

C30_Relative ==
  /\ call.op = "path_to_wide"
  /\ call.path = << "C", "/", "C", "\\", "?" >>
  /\ call.out = << 67, 92, 67, 92, 63, 0 >>

\* C30, third witness state: the prefixed backslash path.
C30_Prefixed ==
  /\ call.op = "path_to_wide"
  /\ call.path = LongPrefix \o << "C", ":", "\\", "C" >>
  /\ Decoded(call.out) = call.path

\* The Shutdown items waiting in the channel.
ShutdownsQueued ==
  Cardinality({ i \in 1 .. Len(queue) : queue[i].type = "Shutdown" })

\* Worker w is between two items: waiting in recv, or out of its loop.
Idle(w) == pc[w] \in {"recv", "exited"}

\* C31: a worker leaves its loop only from recv, on a Shutdown item; from
\* the first Shutdown enqueued on, no ProcessDir or DeleteFiles item is
\* queued or being handled (the only worker not idle is the one inside
\* mark_complete of the last directory, sending the Shutdown items); each
\* worker that left consumed exactly one Shutdown, and when all have left
\* the channel is empty and every item enqueued was handled.
C31_ExitOnlyOnShutdown ==
  /\ [][\A w \in Workers :
          (pc'[w] = "exited" /\ pc[w] # "exited") =>
            /\ pc[w] = "recv" /\ queue # << >>
            /\ Head(queue) = Shutdown /\ queue' = Tail(queue)]_vars
  /\ [](hist.sd >= 1 =>
          /\ \A i \in 1 .. Len(queue) : queue[i] = Shutdown
          /\ \A w \in Workers :
               \/ Idle(w)
               \/ /\ pc[w] = "sending" /\ cur[w] = ProcessDir(hist.mc[total_dirs])
                  /\ \A i \in 1 .. Len(tosend[w]) : tosend[w][i] = Shutdown
          /\ Cardinality({ w \in Workers : ~Idle(w) }) <= 1
          /\ \A d \in Dirs(tree) :
               /\ hist.pd[d] = 1 /\ hist.pdRecv[d] = 1 /\ MarkCount(d) = 1
               /\ hist.bd[d] = Len(hist.df[d]))
  /\ [](Cardinality({ w \in Workers : pc[w] = "exited" })
          = hist.sd - ShutdownsQueued)
  /\ [](AllExited => (queue = << >> /\ hist.sd = worker_count))

\* Two workers have left, each on its own Shutdown, after a run with a
\* batched directory.
C31_Witness ==
  /\ AllExited /\ spawned = 2 /\ hist.sd = 2 /\ queue = << >>
  /\ \E d \in Dirs(tree) : Len(hist.df[d]) = 5

\* C31, second witness state: the first Shutdown is in the channel, the
\* second not yet sent, the other worker waiting in recv.
C31_FirstShutdown ==
  /\ hist.sd = 1 /\ worker_count = 2 /\ ShutdownsQueued = 1 /\ tree.n = 3
  /\ \E w \in Workers : pc[w] = "sending"
\* ------------------------------------------------------------------ C32
\* The positions of the calls of op in the trace s, and of those on path p.
At(s, op) == { j \in 1 .. Len(s) : s[j].op = op }
AtOn(s, op, p) == { j \in At(s, op) : p \in s[j].on }

\* The escalation ladder on a trace s of calls: L are the targets whose first
\* delete answered in-use, del / kill the names of the delete and of the
\* process-kill call.  Still(code) tells whether a target whose retry after
\* the kill stage answered code goes on to the force-close stage: a
\* directory whose retry did not succeed, a file that is in use again.
Ladder(s, L, del, kill) ==
  LET K == At(s, kill)
      Still(code) == IF del = "remove_dir" THEN code # ERROR_SUCCESS
                     ELSE is_file_in_use_error(code)
      F == At(s, "force_close_file_handles")
      rec == IF del = "remove_dir" THEN "record_failure"
             ELSE "record_file_error"
  IN /\ Cardinality(K) = (IF L = {} THEN 0 ELSE 1)
     /\ Cardinality(F) <= 1
     /\ F # {} => K # {}
     /\ \A k \in K :
          LET f == IF F = {} THEN Len(s) + 1 ELSE CHOOSE j \in F : TRUE
              Retry(p) == { j \in AtOn(s, del, p) : k < j /\ j < f }
              still == { p \in L : \E j \in Retry(p) : Still(s[j].code) }
          IN /\ s[k].on = L
             /\ k < f
             \* every first delete comes before the kill stage
             /\ \A p \in L : \E j \in AtOn(s, del, p) :
                  j < k /\ is_file_in_use_error(s[j].code)
             \* the kill stage is followed by one retry of each target
             /\ \A p \in L : Cardinality(Retry(p)) = 1
             \* force-close only for those whose retry did not succeed
             /\ (F # {}) = (still # {})
             /\ \A j \in F : s[j].on = still
             \* one last retry, its failure recorded
             /\ \A p \in L :
                  LET last == { j \in AtOn(s, del, p) : j > f }
                  IN /\ Cardinality(last) = (IF p \in still THEN 1 ELSE 0)
                     /\ \A j \in last :
                          LET failed == /\ s[j].code # ERROR_SUCCESS
                                        /\ ~is_not_found_error(s[j].code)
                          IN /\ failed => /\ j < Len(s)
                                          /\ s[j + 1].op = rec
                                          /\ s[j + 1].on = {p}
                             /\ ~failed => \A i \in AtOn(s, rec, p) : i < f
                             /\ \A i \in AtOn(s, rec, p) : i > f => i = j + 1

\* C32: with kill_processes on, a target whose delete answered in-use goes
\* through the escalation ladder in order: the process-kill stage, then a
\* retry of the delete; force_close_file_handles only after that retry and
\* only if it did not succeed (for the files of a list: on exactly the files
\* whose retry answered in-use again, and not at all when there is none);
\* then one last retry, whose failure is recorded.  The force-close never
\* comes before the kill stage.
C32_EscalationLadder ==
  /\ (call.op = "delete_files_sequential" /\ call.kill) =>
       Ladder(call.out.steps,
              { i \in DOMAIN call.scr : is_file_in_use_error(call.scr[i][1]) },
              "delete_file", "kill_locking_processes_batch")
  /\ (call.op = "process_directory" /\ call.kill) =>
       Ladder(call.out.steps,
              IF is_file_in_use_error(call.out.codes[1]) THEN {0} ELSE {},
              "remove_dir", "kill_locking_processes")
  /\ (call.op \in {"delete_files_sequential", "process_directory"}
        /\ ~call.kill) =>
       /\ At(call.out.steps, "force_close_file_handles") = {}
       /\ At(call.out.steps, "kill_locking_processes") = {}
       /\ At(call.out.steps, "kill_locking_processes_batch") = {}

\* Two locked files: the kill stage frees neither, one answers in-use again
\* and is force-closed alone, and its last retry fails and is recorded.
C32_Witness ==
  /\ call.op = "delete_files_sequential" /\ call.kill
  /\ DOMAIN call.scr = {1, 2}
  /\ is_file_in_use_error(call.scr[1][1]) /\ call.scr[1][2] = HardErrorCode
  /\ is_file_in_use_error(call.scr[2][1])
  /\ is_file_in_use_error(call.scr[2][2]) /\ call.scr[2][3] = HardErrorCode
  /\ \E j \in At(call.out.steps, "force_close_file_handles") :
       call.out.steps[j].on = {2}
  /\ Len(call.out.later) = 2

\* A locked directory that goes through both stages and is recorded.
C32_DirectoryLadder ==
  /\ call.op = "process_directory" /\ call.kill
  /\ Len(call.out.codes) = 3 /\ call.out.path = "recorded"
  /\ Len(call.out.steps) = 6
\* ------------------------------------------------------------------ C33
\* The list worker w is about to run delete_files_from_list on.
ListOf(w) ==
  IF pc[w] = "df_delete" THEN cur[w].files
  ELSE IF cur[w].dir \in DOMAIN dir_files THEN dir_files[cur[w].dir]
  ELSE <<1, 0>>

\* A delete_file call on file i of d has failed.
FailedOn(h, d, i) == \E x \in h.first : x[1] = d /\ x[2] = i

\* C33: a failure on one path never stops the worker.  When the delete pass
\* over a list ends, every file of the list was attempted, the ones after a
\* failed delete included: it is gone or its own delete failed.  The pass is
\* followed by mark_batch_complete or, in process_directory, by remove_dir
\* of the directory, which is followed by mark_complete; and once a delete
\* call has failed every fairly scheduled worker still comes back to
\* rx.recv() until it receives its Shutdown there.
C33_FailureDoesNotStop ==
  /\ [][\A w \in Workers :
          (pc[w] \in {"df_delete", "pd_files"} /\ pc'[w] # pc[w]) =>
            /\ \A i \in IvSet(ListOf(w)) :
                 \/ ~FilePresent(fs', cur[w].dir, i)
                 \/ FailedOn(hist', cur[w].dir, i)
            /\ pc'[w] = (IF pc[w] = "df_delete" THEN "mb_fetch_sub"
                         ELSE "pd_remove")]_vars
  /\ [][\A w \in Workers :
          (pc[w] = "pd_remove" /\ pc'[w] # pc[w]) =>
            /\ cur[w].dir \in hist'.rm
            /\ pc'[w] = "mc_fetch_add"]_vars
  /\ [][\A w \in Workers :
          (pc'[w] = "exited" /\ pc[w] # "exited") => pc[w] = "recv"]_vars
  /\ hist.anyErr ~> AllExited

\* The delete of the first file of a list of several failed and was
\* recorded; the other files of the list are gone, remove_dir of the
\* directory was called all the same, and the run went on to its end.
C33_Witness ==
  /\ AllExited /\ completed = total_dirs
  /\ \E d \in Dirs(tree) :
       /\ tree.files[d] >= 2 /\ d \in hist.rm
       /\ FailedOn(hist, d, 1) /\ FilePresent(fs, d, 1)
       /\ \A i \in 2 .. tree.files[d] : ~FilePresent(fs, d, i)
       /\ \E k \in 1 .. Len(failures) :
            failures[k].path = <<d, 1>> /\ ~failures[k].is_dir
\* ------------------------------------------------------------------ C34
\* What a run of a strategy did: the files of the list it deleted, the set
\* it passed to handle_locked_files, the failures it recorded.
DeletedBy(run, len) == (1 .. len) \ run.stuck
LockedBy(run) ==
  UNION { e.on : e \in { run.steps[j] :
            j \in At(run.steps, "kill_locking_processes_batch") } }
RecordedBy(run) == SeqToSet(run.first \o run.later)

\* C34: delete_files_from_list takes the sequential strategy exactly when the
\* list is shorter than the threshold of the machine (24 up to 4 cores, 16
\* up to 8, 12 up to 16, 8 beyond) and the parallel one otherwise; and for
\* the same answers of delete_file the two strategies delete the same files,
\* pass the same set to handle_locked_files and record the same failures.
C34_StrategiesAgree ==
  call.op = "delete_files_from_list" =>
    LET thr == IF call.cpus <= 4 THEN 24
               ELSE IF call.cpus <= 8 THEN 16
               ELSE IF call.cpus <= 16 THEN 12
               ELSE 8
        ts == Sorted(DOMAIN call.scr)
        seq == delete_files_sequential(ts, 1, call.kill, call.scr)
        par == delete_files_parallel(ts, 1, call.kill, call.scr, call.order)
    IN /\ call.len > 0 =>
            /\ (call.out.strategy = "sequential") = (call.len < thr)
            /\ (call.out.strategy = "parallel") = (call.len >= thr)
       /\ call.out.strategy = "sequential" => call.out.run = seq
       /\ call.out.strategy = "parallel" => call.out.run = par
       /\ DeletedBy(seq, call.len) = DeletedBy(par, call.len)
       /\ LockedBy(seq) = LockedBy(par)
       /\ RecordedBy(seq) = RecordedBy(par)
       /\ seq.esc = par.esc

\* A list at the threshold of an 8-core machine goes the parallel way; the
\* closures ran in reverse order, the first file was recorded in the first
\* pass and the last one went through the escalation and was recorded too.
C34_Witness ==
  /\ call.op = "delete_files_from_list" /\ call.kill
  /\ call.cpus = 8 /\ call.len = 16 /\ call.out.strategy = "parallel"
  /\ call.order = <<16, 1>>
  /\ call.scr[1][1] = HardErrorCode
  /\ LockedBy(call.out.run) = {16}
  /\ Len(call.out.run.first) = 1 /\ Len(call.out.run.later) = 1
  /\ DeletedBy(call.out.run, 16) = 2 .. 15

\* The same list on a 4-core machine goes the sequential way.
C34_Sequential ==
  /\ call.op = "delete_files_from_list" /\ call.cpus = 4 /\ call.len = 16
  /\ call.out.strategy = "sequential" /\ call.out.run.stuck = {1, 16}
\* ------------------------------------------------------------------ C35
\* C35: no counter of the broker is decremented while it is zero: the
\* fetch_sub of mark_complete on child_counts and the one of
\* mark_batch_complete on pending_batches see a value of 1 at least and
\* store one less, so no counter ever holds the wrapped value.
C35_NoUnderflow ==
  /\ [](/\ \A d \in DOMAIN child_counts : child_counts[d] >= 0
        /\ \A d \in DOMAIN pending_batches : pending_batches[d] >= 0)
  /\ [][\A w \in Workers :
          (pc[w] = "mc_fetch_sub" /\ pc'[w] # pc[w]
             /\ child_counts' # child_counts) =>
            LET p == parent_map[cur[w].dir]
            IN /\ child_counts[p] >= 1
               /\ child_counts' = [child_counts EXCEPT ![p] = @ - 1]]_vars
  /\ [][\A w \in Workers :
          (pc[w] = "mb_fetch_sub" /\ pc'[w] # pc[w]
             /\ pending_batches' # pending_batches) =>
            LET d == cur[w].dir
            IN /\ pending_batches[d] >= 1
               /\ pending_batches' = [pending_batches EXCEPT ![d] = @ - 1]]_vars

\* Both counters of a directory went down to zero: its child counter was
\* removed after its child was marked complete, and two workers brought its
\* batch counter from 5 to 0.
C35_Witness ==
  \E d \in DOMAIN pending_batches :
    /\ Children(tree, d) # {} /\ d \notin DOMAIN child_counts
    /\ pending_batches[d] = 0 /\ hist.bd[d] = 5
    /\ spawned = 2
\* ------------------------------------------------------------------ C36
\* The number of batches of directory d.
BatchesOf(d) == (tree.files[d] + BATCH_SIZE - 1) \div BATCH_SIZE

\* The workers that saw the counter of d go to zero and have not sent
\* ProcessDir(d) yet.
SawZero(d) ==
  { w \in Workers : pc[w] = "mb_send" /\ cur[w].dir = d }

\* C36: the counter of a batched directory is in pending_batches, set to the
\* whole number of batches, before the first of its DeleteFiles items is
\* enqueued; every mark_batch_complete finds it, none of the completions is
\* lost (the counter is the number of batches minus the calls made), and
\* exactly one call, the one that makes up the number, sees the counter go
\* to zero and enqueues ProcessDir.
C36_BatchCounter ==
  /\ [](\A d \in Dirs(tree) :
          /\ (hist.df[d] # << >> /\ hist.pd[d] = 0 /\ SawZero(d) = {}) =>
               d \in DOMAIN pending_batches
          /\ d \in DOMAIN pending_batches =>
               /\ pending_batches[d] = BatchesOf(d) - hist.bd[d]
               /\ hist.pd[d] = 0
          /\ hist.bd[d] <= Len(hist.df[d])
          /\ Cardinality(SawZero(d)) + hist.pd[d] <= 1
          /\ (SawZero(d) # {} \/ hist.pd[d] = 1) =>
               (NeedsBatching(tree.files[d]) => hist.bd[d] = BatchesOf(d)))
  /\ [][\A d \in Dirs(tree) :
          (hist.df[d] = << >> /\ hist'.df[d] # << >>) =>
            /\ d \in DOMAIN pending_batches
            /\ pending_batches[d] = BatchesOf(d)
            /\ hist.bd[d] = 0]_vars
  /\ [][\A w \in Workers :
          (pc[w] = "mb_fetch_sub" /\ pc'[w] # pc[w]) =>
            LET d == cur[w].dir
            IN /\ d \in DOMAIN pending_batches
               /\ pending_batches'[d] = pending_batches[d] - 1
               /\ (pc'[w] = "mb_send") = (hist'.bd[d] = BatchesOf(d))
               /\ pc'[w] \in {"mb_send", "recv"}]_vars
  /\ [][\A w \in Workers :
          (pc[w] = "mb_send" /\ pc'[w] # pc[w]) =>
            /\ hist.pd[cur[w].dir] = 0 /\ hist'.pd[cur[w].dir] = 1
            /\ cur[w].dir \notin DOMAIN pending_batches'
            /\ queue' = Append(queue, ProcessDir(cur[w].dir))]_vars

\* A directory scheduled by a worker: its five batches were handled by two
\* workers, its counter is gone and its ProcessDir was enqueued once.
C36_Witness ==
  \E d \in Dirs(tree) :
    /\ Children(tree, d) # {} /\ BatchesOf(d) = 5
    /\ hist.bd[d] = 5 /\ Len(hist.df[d]) = 5
    /\ d \notin DOMAIN pending_batches /\ hist.pd[d] = 1
    /\ spawned = 2

\* The counter holds the whole count while the first item is still to be
\* sent by the scheduling worker.
C36_BeforeFirstSend ==
  \E d \in DOMAIN pending_batches :
    /\ hist.df[d] = << >> /\ pending_batches[d] = 5
    /\ \E w \in Workers : pc[w] = "sending" /\ Len(tosend[w]) = 5
\* ------------------------------------------------------------------ C37
\* The FailedItems in the tracker for path p.
ItemsOf(p) == { k \in 1 .. Len(failures) : failures[k].path = p }

\* C37: in one run a path yields one FailedItem at most, whether it was
\* recorded by the first pass or by a stage of the escalation; the item of
\* a file has is_dir = false and the item of a directory is_dir = true; and
\* a path whose last delete call answered Ok or not-found yields none.
C37_OneItemPerPath ==
  /\ \A k \in 1 .. Len(failures) :
       /\ Cardinality(ItemsOf(failures[k].path)) = 1
       /\ failures[k].path[1] \in Dirs(tree)
       /\ failures[k].is_dir = (failures[k].path[2] = 0)
       /\ ~failures[k].is_dir =>
            failures[k].path[2] \in 1 .. tree.files[failures[k].path[1]]
  /\ \A p \in hist.quiet : ItemsOf(p) = {}

\* With kill_processes on, a file that was in use three times over has one
\* item, and its directory, whose removal then failed, has one of its own;
\* another directory was removed without a trace.
C37_Witness ==
  /\ kill_processes /\ AllExited
  /\ \E d \in Dirs(tree) :
       /\ Cardinality(ItemsOf(<<d, 1>>)) = 1
       /\ Cardinality(ItemsOf(<<d, 0>>)) = 1
       /\ \E e \in hist.esc : e.op = "force_close_file_handles" /\ e.dir = d
  /\ \E p \in hist.quiet : p[2] = 0

\* A file that was in use at first and deleted after the kill stage.
C37_QuietAfterRetry ==
  /\ kill_processes
  /\ \E p \in hist.quiet :
       /\ p[2] >= 1
       /\ \E x \in hist.first : x[1] = p[1] /\ x[2] = p[2]
                                  /\ is_file_in_use_error(x[3])
\* ------------------------------------------------------------------ C38
\* C38: once the run has terminated, that is once completed has reached
\* total_dirs, the maps child_counts, pending_batches and dir_files of the
\* broker are all empty.
C38_MapsEmptyAtEnd ==
  completed = total_dirs =>
    /\ DOMAIN child_counts = {}
    /\ DOMAIN pending_batches = {}
    /\ DOMAIN dir_files = {}

\* A run of two workers has terminated: the root had a child counter and a
\* batch counter, and its list was taken by schedule_directory.
C38_Witness ==
  /\ completed = total_dirs /\ AllExited /\ spawned = 2
  /\ Children(tree, 1) # {}
  /\ hist.bd[1] = 5 /\ hist.took[1] = << >>
  /\ DOMAIN child_counts = {} /\ DOMAIN dir_files = {}

\* A run over three directories has terminated: the list of one of them was
\* taken by process_directory.
C38_ListTaken ==
  /\ completed = total_dirs /\ tree.n = 3
  /\ \E d \in Dirs(tree) : hist.took[d] # << >>
  /\ DOMAIN dir_files = {}
\* ------------------------------------------------------------------ C39
\* A purely sequential recursion over the disk, depth first: todo holds the
\* directories still to be scanned, the next one first, and acc what was
\* gathered so far.
RECURSIVE SeqScan(_, _, _)
SeqScan(disk, todo, acc) ==
  IF todo = << >> THEN acc
  ELSE
    LET d == Head(todo)
        entered == [acc EXCEPT !.dirs = @ \cup {d}]
    IN IF d \in disk.bad
       THEN SeqScan(disk, Tail(todo), entered)
       ELSE
         LET loc == Enumerated(enumerate_files(disk, d), 1, NoLocals)
             kids == loc.child_dirs \o loc.symlink_dirs
         IN SeqScan(disk, loc.child_dirs \o Tail(todo),
              [dirs |-> entered.dirs \cup SeqToSet(loc.symlink_dirs),
               children |-> IF kids = << >> THEN acc.children
                            ELSE d :> kids @@ acc.children,
               dir_files |-> IF Len(loc.files) = 0 THEN acc.dir_files
                             ELSE d :> loc.files @@ acc.dir_files,
               file_count |-> acc.file_count + Len(loc.files),
               total_bytes |-> acc.total_bytes + loc.local_bytes])

SequentialTree(disk) ==
  LET r == SeqScan(disk, <<1>>,
                   [dirs |-> {}, children |-> << >>, dir_files |-> << >>,
                    file_count |-> 0, total_bytes |-> 0])
  IN [ok |-> TRUE, dirs |-> r.dirs, children |-> r.children,
      dir_files |-> r.dir_files,
      leaves |-> r.dirs \ DOMAIN r.children,
      file_count |-> r.file_count, total_bytes |-> r.total_bytes]

RECURSIVE SumLen(_, _)
SumLen(f, S) ==
  IF S = {} THEN 0
  ELSE LET x == CHOOSE y \in S : TRUE
       IN Len(f[x]) + SumLen(f, S \ {x})

\* C39: whatever the interleaving of the parallel scan calls, the
\* DirectoryTree discover_tree returns (dirs and leaves as sets, children and
\* dir_files as maps, file_count, total_bytes) is the one a purely sequential
\* recursion over the same disk produces; file_count is the sum of the
\* lengths of the dir_files lists, and none of these lists is empty.
C39_ScanDeterministic ==
  (scan.op = "scan" /\ scan.result.ok) =>
    /\ scan.result = SequentialTree(scan.disk)
    /\ scan.result.file_count =
         SumLen(scan.result.dir_files, DOMAIN scan.result.dir_files)
    /\ \A d \in DOMAIN scan.result.dir_files :
         Len(scan.result.dir_files[d]) > 0

\* A scan that forked at the root (8 cores, two subdirectories) has
\* returned; two directories hold files and one holds none.
C39_Witness ==
  /\ scan.op = "scan" /\ scan.result.ok
  /\ scan.disk.cpus = 2 * CpuCount
  /\ 1 \in DOMAIN scan.result.children
  /\ Len(scan.loc[1].child_dirs) >= 2
  /\ Cardinality(DOMAIN scan.result.dir_files) = 2
  /\ scan.result.file_count >= 2
  /\ \E d \in scan.result.dirs : d \notin DOMAIN scan.result.dir_files
\* ------------------------------------------------------------------ C40
Exited == { w \in Workers : pc[w] = "exited" }

\* Worker w waits in rx.recv() on an empty channel.
Blocked(w) == pc[w] = "recv" /\ queue = << >>

\* C40: on a tree of one directory at least, every spawned worker of a
\* fairly scheduled pool eventually exits if and only if no more workers
\* were spawned than the worker_count the broker was given.  Each worker
\* that exits has consumed one Shutdown; with more workers than Shutdown
\* items the surplus workers end up blocked in recv for ever, the channel
\* being empty and never closed.
C40_ExitIffEnoughShutdowns ==
  /\ <>[](IF spawned <= worker_count
          THEN AllExited
          ELSE /\ Cardinality(Exited) = worker_count
               /\ \A w \in Workers \ Exited : Blocked(w))
  /\ [](spawned > worker_count => ~AllExited)
  /\ [](Cardinality(Exited) = hist.sd - ShutdownsQueued)

\* Two workers on a broker told of one: one has exited on the only
\* Shutdown, the other waits on the empty channel, the run being complete.
C40_Witness ==
  /\ spawned = 2 /\ worker_count = 1 /\ completed = total_dirs
  /\ hist.sd = 1 /\ Cardinality(Exited) = 1
  /\ \E w \in Workers : Blocked(w)
  /\ tree.n >= 2

\* One worker on a broker told of two: it has exited and one Shutdown is
\* left in the channel.
C40_Fewer ==
  /\ spawned = 1 /\ worker_count = 2 /\ AllExited
  /\ queue = << Shutdown >>

====
